---------------------------- MODULE Spec2Model ----------------------------
(***************************************************************************)
(* Local Media Viewer: the server's media source and thumbnail cache       *)
(* engine (src/server.js).  Strings are sequences of one-character         *)
(* strings, so that parsing, formatting and path arithmetic are computed   *)
(* as the code computes them.                                              *)
(***************************************************************************)
EXTENDS Integers, Sequences, FiniteSets, TLC

VARIABLES
  platform,     \* "posix" or "win32": the path module the process runs with
  localFs,      \* local files: path -> [exists, content, mtime]
  mediaReq,     \* GET /api/media/* : the request being answered
  mediaRes,     \* GET /api/media/* : the response produced
  now,          \* the clock new Date() reads, in milliseconds
  cacheDir,     \* THUMBNAIL_CACHE_DIR: the files in it, [name, data]
  ioFaults,     \* whether cache-directory I/O may fail in this run
  ftpConnections, \* the pool table: its entries, [key, client]
  clients,      \* the FtpClient objects stored so far: [key, closed, ...]
  procs,        \* the requests issued so far, each with its position
  dirTree,      \* the directory tree a scan walks: directory -> its listing
  scanFaults,   \* the directories whose listing fails, the files whose stat fails
  scanReq,      \* POST /api/scan-directory : the directory of the request
  scanRes,      \* POST /api/scan-directory : the response produced
  call,         \* a call of a pure function: its name, argument and result
  page          \* the browser page: its lists of records, filter and search box

mediaVars == <<mediaReq, mediaRes>>
scanVars == <<dirTree, scanFaults, scanReq, scanRes>>
envVars == <<platform, localFs, scanVars, call, page>>
cacheVars == <<now, cacheDir, ioFaults, ftpConnections, clients, procs>>
vars == <<platform, localFs, mediaReq, mediaRes, now, cacheDir, ioFaults,
          ftpConnections, clients, procs, dirTree, scanFaults, scanReq, scanRes, call, page>>

None == "none"

\* no pure function has been called
NoCall == [fn |-> "none", arg |-> <<>>, out |-> <<>>]

\* the page as the script leaves it when loaded (part_000 8-29): empty arrays,
\* filter 'all', an empty search box, no image and no video chosen, nothing
\* saved as lastDirectory, no scan asked for; refs counts the arrays made,
\* tick flips with every step in a playlist
NoPage ==
  [mediaFiles |-> [ref |-> 1, items |-> <<>>],
   filteredFiles |-> [ref |-> 2, items |-> <<>>],
   currentFilter |-> "all", searchInput |-> <<>>,
   imageFiles |-> <<>>, currentImageIndex |-> 0,
   videoFiles |-> <<>>, currentVideoIndex |-> -1,
   lastDirectory |-> <<>>, scans |-> <<>>,
   refs |-> 2, ops |-> 0, last |-> "load", tick |-> 0]

(***************************************************************************)
(* Bounds of the model.                                                    *)
(***************************************************************************)
MaxFileSize == 11
MaxRequests == 2
MaxTime == 2
MaxAcquires == 3
MaxEntries == 3
MaxFiles == 3
StreamCapacity == 3

(***************************************************************************)
(* JavaScript strings.                                                     *)
(***************************************************************************)
Digits == <<"0", "1", "2", "3", "4", "5", "6", "7", "8", "9">>

IsDigit(c) == \E i \in 1..10 : Digits[i] = c

DigitVal(c) == (CHOOSE i \in 1..10 : Digits[i] = c) - 1

StartsWith(s, p) ==
  /\ Len(p) <= Len(s)
  /\ SubSeq(s, 1, Len(p)) = p

\* String.prototype.indexOf, 1-based; 0 when absent
IndexOf(s, sub) ==
  LET hits == {i \in 1..(Len(s) - Len(sub) + 1) : SubSeq(s, i, i + Len(sub) - 1) = sub}
  IN IF hits = {} THEN 0 ELSE CHOOSE i \in hits : \A j \in hits : i <= j

\* String.prototype.lastIndexOf of one character, 1-based; 0 when absent
LastIndexOfChar(s, c) ==
  LET hits == {i \in 1..Len(s) : s[i] = c}
  IN IF hits = {} THEN 0 ELSE CHOOSE i \in hits : \A j \in hits : i >= j

\* String.prototype.replace with a non-global pattern: the first match only
ReplaceFirst(s, sub, rep) ==
  LET i == IndexOf(s, sub)
  IN IF i = 0 THEN s
     ELSE SubSeq(s, 1, i - 1) \o rep \o SubSeq(s, i + Len(sub), Len(s))

\* String.prototype.split on a one-character separator
RECURSIVE SplitOn(_, _)
SplitOn(s, c) ==
  LET i == IndexOf(s, <<c>>)
  IN IF i = 0 THEN <<s>>
     ELSE <<SubSeq(s, 1, i - 1)>> \o SplitOn(SubSeq(s, i + 1, Len(s)), c)

\* JavaScript numbers as far as the handlers use them: an integer or NaN
Num(n) == [nan |-> FALSE, v |-> n]
NaN == [nan |-> TRUE, v |-> 0]

\* the value of a run of decimal digits
RECURSIVE DigitsValue(_)
DigitsValue(s) ==
  IF s = <<>> THEN 0
  ELSE 10 * DigitsValue(SubSeq(s, 1, Len(s) - 1)) + DigitVal(s[Len(s)])

\* the longest prefix of s made of digits
RECURSIVE DigitPrefix(_)
DigitPrefix(s) ==
  IF s = <<>> \/ ~IsDigit(s[1]) THEN <<>>
  ELSE <<s[1]>> \o DigitPrefix(Tail(s))

RECURSIVE TrimLeft(_)
TrimLeft(s) == IF s # <<>> /\ s[1] = " " THEN TrimLeft(Tail(s)) ELSE s

\* parseInt(s, 10): leading blanks, an optional sign, then the longest run of
\* digits; NaN when there is no digit
ParseInt(s) ==
  LET t == TrimLeft(s)
      neg == t # <<>> /\ t[1] = "-"
      u == IF t # <<>> /\ t[1] \in {"-", "+"} THEN Tail(t) ELSE t
      d == DigitPrefix(u)
  IN IF d = <<>> THEN NaN
     ELSE Num(IF neg THEN 0 - DigitsValue(d) ELSE DigitsValue(d))

\* String(n) of a non-negative integer
RECURSIVE NatToString(_)
NatToString(n) ==
  IF n < 10 THEN <<Digits[n + 1]>>
  ELSE NatToString(n \div 10) \o <<Digits[(n % 10) + 1]>>

\* template interpolation `${x}` of a number
NumToString(x) ==
  IF x.nan THEN <<"N", "a", "N">>
  ELSE IF x.v < 0 THEN <<"-">> \o NatToString(0 - x.v)
  ELSE NatToString(x.v)


Lower == <<"a", "b", "c", "d", "e", "f", "g", "h", "i", "j", "k", "l", "m",
           "n", "o", "p", "q", "r", "s", "t", "u", "v", "w", "x", "y", "z">>
Upper == <<"A", "B", "C", "D", "E", "F", "G", "H", "I", "J", "K", "L", "M",
           "N", "O", "P", "Q", "R", "S", "T", "U", "V", "W", "X", "Y", "Z">>

LowerChar(c) ==
  IF \E i \in 1..26 : Upper[i] = c
  THEN Lower[CHOOSE i \in 1..26 : Upper[i] = c]
  ELSE c

\* String.prototype.toLowerCase
ToLowerCase(s) == [i \in 1..Len(s) |-> LowerChar(s[i])]

\* the index of the last path separator of p, 0 when there is none
LastSep(p, seps) ==
  LET hits == {i \in 1..Len(p) : p[i] \in seps}
  IN IF hits = {} THEN 0 ELSE CHOOSE i \in hits : \A j \in hits : i >= j

\* path.basename
BaseName(p, seps) == SubSeq(p, LastSep(p, seps) + 1, Len(p))

\* path.extname: from the last dot of the base name, empty when the base name
\* has no dot or only a leading one
ExtName(p, seps) ==
  LET base == BaseName(p, seps)
      dot == LastIndexOfChar(base, ".")
  IN IF dot <= 1 \/ base = <<".", ".">> THEN <<>>
     ELSE SubSeq(base, dot, Len(base))

PosixSeps == {"/"}
Win32Seps == {"/", "\\"}

(***************************************************************************)
(* Media classifier (server.js 315-319, 373-387, 790-816).                 *)
(***************************************************************************)
MEDIA_EXTENSIONS ==
  << [type |-> "video", extensions |-> <<
        <<".", "m", "p", "4">>,
        <<".", "w", "e", "b", "m">>,
        <<".", "o", "g", "g">>,
        <<".", "m", "o", "v">>,
        <<".", "a", "v", "i">>,
        <<".", "m", "k", "v">>,
        <<".", "m", "4", "v">>,
        <<".", "f", "l", "v">>,
        <<".", "w", "m", "v">>>>],
     [type |-> "image", extensions |-> <<
        <<".", "j", "p", "g">>,
        <<".", "j", "p", "e", "g">>,
        <<".", "p", "n", "g">>,
        <<".", "g", "i", "f">>,
        <<".", "b", "m", "p">>,
        <<".", "w", "e", "b", "p">>,
        <<".", "s", "v", "g">>>>],
     [type |-> "audio", extensions |-> <<
        <<".", "m", "p", "3">>,
        <<".", "w", "a", "v">>,
        <<".", "o", "g", "g">>,
        <<".", "m", "4", "a">>,
        <<".", "f", "l", "a", "c">>,
        <<".", "a", "a", "c">>>>] >>

Includes(seq, x) == \E i \in 1..Len(seq) : seq[i] = x

\* a membership test that does not lowercase the extension
isMediaFileCaseSensitive(filename, seps) ==
  \E k \in 1..Len(MEDIA_EXTENSIONS) :
    Includes(MEDIA_EXTENSIONS[k].extensions, ExtName(filename, seps))

isMediaFile(filename, seps) ==
  LET ext == ToLowerCase(ExtName(filename, seps))
  IN \E k \in 1..Len(MEDIA_EXTENSIONS) : Includes(MEDIA_EXTENSIONS[k].extensions, ext)

\* the first kind, in table order, that lists the extension
getMediaType(filename, seps) ==
  LET ext == ToLowerCase(ExtName(filename, seps))
      hits == {k \in 1..Len(MEDIA_EXTENSIONS) : Includes(MEDIA_EXTENSIONS[k].extensions, ext)}
  IN IF hits = {} THEN "unknown"
     ELSE MEDIA_EXTENSIONS[CHOOSE k \in hits : \A j \in hits : k <= j].type

contentTypes ==
  << <<<<".", "m", "p", "4">>, "video/mp4">>,
     <<<<".", "w", "e", "b", "m">>, "video/webm">>,
     <<<<".", "o", "g", "g">>, "video/ogg">>,
     <<<<".", "m", "o", "v">>, "video/quicktime">>,
     <<<<".", "a", "v", "i">>, "video/x-msvideo">>,
     <<<<".", "m", "k", "v">>, "video/x-matroska">>,
     <<<<".", "m", "4", "v">>, "video/mp4">>,
     <<<<".", "f", "l", "v">>, "video/x-flv">>,
     <<<<".", "w", "m", "v">>, "video/x-ms-wmv">>,
     <<<<".", "m", "p", "3">>, "audio/mpeg">>,
     <<<<".", "w", "a", "v">>, "audio/wav">>,
     <<<<".", "m", "4", "a">>, "audio/mp4">>,
     <<<<".", "f", "l", "a", "c">>, "audio/flac">>,
     <<<<".", "a", "a", "c">>, "audio/aac">>,
     <<<<".", "j", "p", "g">>, "image/jpeg">>,
     <<<<".", "j", "p", "e", "g">>, "image/jpeg">>,
     <<<<".", "p", "n", "g">>, "image/png">>,
     <<<<".", "g", "i", "f">>, "image/gif">>,
     <<<<".", "b", "m", "p">>, "image/bmp">>,
     <<<<".", "w", "e", "b", "p">>, "image/webp">>,
     <<<<".", "s", "v", "g">>, "image/svg+xml">> >>

getContentType(filePath, seps) ==
  LET ext == ToLowerCase(ExtName(filePath, seps))
      hits == {k \in 1..Len(contentTypes) : contentTypes[k][1] = ext}
  IN IF hits = {} THEN "application/octet-stream"
     ELSE contentTypes[CHOOSE k \in hits : TRUE][2]

\* the separators path.basename and path.extname look for
Seps == IF platform = "win32" THEN Win32Seps ELSE PosixSeps

Min(a, b) == IF a <= b THEN a ELSE b

(***************************************************************************)
(* Local files.                                                            *)
(***************************************************************************)
PathVideo == <<"/", "m", "/", "a", ".", "m", "p", "4">>
PathJpg == <<"/", "m", "/", "a", ".", "j", "p", "g">>
PathSvg == <<"/", "m", "/", "c", ".", "s", "v", "g">>
PathGif == <<"/", "m", "/", "d", ".", "G", "I", "F">>
FtpJpg == <<"f", "t", "p", ":", "/", "/", "u", "@", "h", ":", "2", "1", "/", "x", ".", "j", "p", "g">>
FtpPw == <<"f","t","p",":","/","/","u",":","p","@","h","/","y",".","j","p","g">>
FtpOther == <<"f","t","p","s",":","/","/","h",":","9","9","0","/","z",".","p","n","g">>
FtpBad == <<"f", "t", "p", ":", "/", "/", "h", ":", "x", "/", "y", ".", "j", "p", "g">>
FtpsNoHost == <<"f","t","p","s",":","/","/","/","z",".","p","n","g">>

NameOf(path) == BaseName(path, {"/"})

\* the bytes of a file of n bytes: all different, so that a slice names its place
FileContent(n) == [i \in 1..n |-> 10 + i]

\* image bytes: the first byte tells whether the decoder accepts them
GoodImage(version) == <<1, version>>
CorruptImage == <<0, 0>>

\* a remote video
FtpBig == <<"f","t","p",":","/","/","u","@","h","/","b",".","m","p","4">>

\* the bytes of the remote files: one object larger than the intermediate
\* stream of a media request holds, the others small images
RemoteContent(remotePath) ==
  IF remotePath = <<"/","b",".","m","p","4">> THEN FileContent(StreamCapacity + 2)
  ELSE GoodImage(7)

LocalPaths == {PathVideo, PathJpg, PathSvg, PathGif}

AbsentFile == [exists |-> FALSE, content |-> <<>>, mtime |-> 0]

PresentFile(content, mtime) == [exists |-> TRUE, content |-> content, mtime |-> mtime]

existsSync(p) == localFs[p].exists

(***************************************************************************)
(* GET /api/media/* for a local file (server.js 530-562).                  *)
(***************************************************************************)
BytesEq == <<"b", "y", "t", "e", "s", "=">>

\* the Range header a client sends for the span start..end
RangeHeader(start, end) == BytesEq \o NatToString(start) \o <<"-">> \o NatToString(end)

\* the Range header for "from start to the end of the file"
OpenRangeHeader(start) == BytesEq \o NatToString(start) \o <<"-">>

\* a suffix range, bytes=-n, and a header whose start is no number
SuffixRangeHeader(n) == BytesEq \o <<"-">> \o NatToString(n)
JunkRangeHeader(end) == BytesEq \o <<"x", "-">> \o NatToString(end)

NumSub(a, b) == IF a.nan \/ b.nan THEN NaN ELSE Num(a.v - b.v)
\* (end - start) + 1 without the + 1
NumAddDropped(a, b) == a

NumAdd(a, b) == IF a.nan \/ b.nan THEN NaN ELSE Num(a.v + b.v)

\* lines 541-543 with the end taken from the file size whatever the header says
ParseRangeIgnoringEnd(range, fileSize) ==
  LET parts == SplitOn(ReplaceFirst(range, BytesEq, <<>>), "-")
  IN [start |-> ParseInt(parts[1]), end |-> Num(fileSize - 1)]

\* lines 541-543: parts, start and end of a Range header
ParseRange(range, fileSize) ==
  LET parts == SplitOn(ReplaceFirst(range, BytesEq, <<>>), "-")
      start == ParseInt(parts[1])
      end == IF Len(parts) >= 2 /\ parts[2] # <<>>
             THEN ParseInt(parts[2])
             ELSE Num(fileSize - 1)
  IN [start |-> start, end |-> end]

\* fs.createReadStream(path, {start, end}): throws unless 0 <= start <= end are
\* integers; otherwise yields bytes start..end inclusive, as far as the file goes
createReadStream(content, start, end) ==
  IF start.nan \/ end.nan \/ start.v < 0 \/ end.v < 0 \/ start.v > end.v
  THEN [throws |-> TRUE, data |-> <<>>]
  ELSE [throws |-> FALSE,
        data |-> SubSeq(content, start.v + 1, Min(end.v + 1, Len(content)))]

Response(status, contentRange, acceptRanges, contentLength, contentType, body, error) ==
  [status |-> status, contentRange |-> contentRange, acceptRanges |-> acceptRanges,
   contentLength |-> contentLength, contentType |-> contentType,
   body |-> body, error |-> error]

JsonError(status, error) == Response(status, <<>>, "", <<>>, "application/json", <<>>, error)

NoResponse == Response(0, <<>>, "", <<>>, "", <<>>, "")

\* the handler's answer for a local path; range is <<>> when the header is absent
MediaLocalResponse(filePath, range) ==
  IF ~existsSync(filePath) THEN JsonError(404, "File not found")
  ELSE
    LET fileSize == Len(localFs[filePath].content)
    IN IF range # <<>>
       THEN LET r == ParseRange(range, fileSize)
                chunksize == NumAdd(NumSub(r.end, r.start), Num(1))
                file == createReadStream(localFs[filePath].content, r.start, r.end)
            IN IF file.throws THEN JsonError(500, "ERR_OUT_OF_RANGE")
               ELSE Response(206,
                      <<"b", "y", "t", "e", "s", " ">> \o NumToString(r.start) \o <<"-">>
                        \o NumToString(r.end) \o <<"/">> \o NatToString(fileSize),
                      "bytes", NumToString(chunksize),
                      getContentType(filePath, Seps), file.data, "")
       ELSE Response(200, <<>>, "", NatToString(fileSize),
                     getContentType(filePath, Seps),
                     localFs[filePath].content, "")

RangeHeaders ==
  {RangeHeader(s, e) : s \in 0..MaxFileSize, e \in 0..MaxFileSize}
    \cup {OpenRangeHeader(s) : s \in 0..MaxFileSize}
    \cup {SuffixRangeHeader(2), JunkRangeHeader(2), <<>>}

MediaGet(filePath, range) ==
  /\ mediaRes = NoResponse
  /\ mediaReq' = [filePath |-> filePath, range |-> range]
  /\ mediaRes' = MediaLocalResponse(filePath, range)
  /\ UNCHANGED <<envVars, cacheVars>>

\* no scan is asked for
ScanIdle ==
  /\ dirTree = <<>>
  /\ scanFaults = [readdir |-> {}, stat |-> {}]
  /\ scanReq = <<>>
  /\ scanRes = [status |-> 0, error |-> "", directory |-> <<>>, count |-> 0, files |-> <<>>]

MediaInit ==
  /\ platform \in {"posix", "win32"}
  /\ localFs \in
       {[p \in LocalPaths |-> IF p = PathVideo THEN f ELSE AbsentFile] :
          f \in {AbsentFile} \cup {PresentFile(FileContent(n), 1) : n \in 0..MaxFileSize}}
  /\ mediaReq = [filePath |-> <<>>, range |-> <<>>]
  /\ mediaRes = NoResponse
  /\ ScanIdle
  /\ now = 1
  /\ cacheDir = {}
  /\ ioFaults = FALSE
  /\ ftpConnections = {}
  /\ clients = <<>>
  /\ procs = <<>>
  /\ call = NoCall
  /\ page = NoPage

MediaNext == \E filePath \in LocalPaths, range \in RangeHeaders : MediaGet(filePath, range)

SpecMedia == MediaInit /\ [][MediaNext]_vars

\* C1: a Range header bytes=start-end with 0 <= start <= end < size of an
\* existing local file is answered with exactly end-start+1 bytes, the bytes
\* start..end (inclusive, counted from 0) of the file's content.
C1_RangeSlice ==
  \A start \in 0..MaxFileSize, end \in 0..MaxFileSize :
    ( /\ mediaReq.filePath \in LocalPaths
      /\ mediaReq.range = RangeHeader(start, end)
      /\ localFs[mediaReq.filePath].exists
      /\ start <= end
      /\ end < Len(localFs[mediaReq.filePath].content) )
    => /\ Len(mediaRes.body) = end - start + 1
       /\ \A i \in 0..(end - start) :
            mediaRes.body[i + 1] = localFs[mediaReq.filePath].content[start + i + 1]

\* a two-digit range strictly inside a file has been served
C1_Witness ==
  /\ mediaReq.range = RangeHeader(3, 10)
  /\ mediaReq.filePath = PathVideo
  /\ Len(localFs[PathVideo].content) = 11
  /\ mediaRes.status = 206
  /\ mediaRes.body = <<14, 15, 16, 17, 18, 19, 20, 21>>

BytesSpace == <<"b", "y", "t", "e", "s", " ">>

MediaAsked(range) ==
  /\ mediaReq.filePath \in LocalPaths
  /\ mediaReq.range = range
  /\ mediaRes # NoResponse
  /\ localFs[mediaReq.filePath].exists

\* C12: for an existing local file of size S, Range bytes=start-end with
\* 0 <= start <= end < S is answered 206 with Content-Range "bytes
\* start-end/S", Accept-Ranges bytes and Content-Length end-start+1; Range
\* bytes=start- with start < S is answered as bytes=start-(S-1); a request
\* without Range is answered 200 with Content-Length S and the whole file.
C12_RangeHeaders ==
  /\ \A start \in 0..MaxFileSize, end \in 0..MaxFileSize :
       (/\ MediaAsked(RangeHeader(start, end))
        /\ start <= end
        /\ end < Len(localFs[mediaReq.filePath].content))
       => /\ mediaRes.status = 206
          /\ mediaRes.contentRange =
               BytesSpace \o NatToString(start) \o <<"-">> \o NatToString(end) \o <<"/">>
                 \o NatToString(Len(localFs[mediaReq.filePath].content))
          /\ mediaRes.acceptRanges = "bytes"
          /\ mediaRes.contentLength = NatToString(end - start + 1)
  /\ \A start \in 0..MaxFileSize :
       (/\ MediaAsked(OpenRangeHeader(start))
        /\ start < Len(localFs[mediaReq.filePath].content))
       => /\ mediaRes.status = 206
          /\ mediaRes.contentRange =
               BytesSpace \o NatToString(start) \o <<"-">>
                 \o NatToString(Len(localFs[mediaReq.filePath].content) - 1) \o <<"/">>
                 \o NatToString(Len(localFs[mediaReq.filePath].content))
          /\ mediaRes.acceptRanges = "bytes"
          /\ mediaRes.contentLength =
               NatToString(Len(localFs[mediaReq.filePath].content) - start)
          /\ mediaRes.body =
               SubSeq(localFs[mediaReq.filePath].content, start + 1,
                      Len(localFs[mediaReq.filePath].content))
  /\ MediaAsked(<<>>)
       => /\ mediaRes.status = 200
          /\ mediaRes.contentLength = NatToString(Len(localFs[mediaReq.filePath].content))
          /\ mediaRes.contentRange = <<>>
          /\ mediaRes.body = localFs[mediaReq.filePath].content

C12_Witness ==
  /\ mediaReq.range = <<"b", "y", "t", "e", "s", "=", "2", "-", "1", "0">>
  /\ mediaReq.filePath = PathVideo
  /\ Len(localFs[PathVideo].content) = 11
  /\ mediaRes.status = 206
  /\ mediaRes.contentRange =
       <<"b", "y", "t", "e", "s", " ", "2", "-", "1", "0", "/", "1", "1">>
  /\ mediaRes.acceptRanges = "bytes"
  /\ mediaRes.contentLength = <<"9">>

(***************************************************************************)
(* Source locator (server.js 351-370).                                     *)
(***************************************************************************)
FtpScheme == <<"f", "t", "p", ":", "/", "/">>
FtpsScheme == <<"f", "t", "p", "s", ":", "/", "/">>

isFtpPath(path) ==
  /\ path # <<>>
  /\ (StartsWith(path, FtpScheme) \/ StartsWith(path, FtpsScheme))

AllDigits(s) == \A i \in 1..Len(s) : IsDigit(s[i])

\* the text before the first c (all of s without one), and from the first c on
BeforeFirst(s, c) == SubSeq(s, 1, (IF IndexOf(s, <<c>>) = 0 THEN Len(s) ELSE IndexOf(s, <<c>>) - 1))
FromFirst(s, c) == IF IndexOf(s, <<c>>) = 0 THEN <<>> ELSE SubSeq(s, IndexOf(s, <<c>>), Len(s))
AfterFirst(s, c) == IF IndexOf(s, <<c>>) = 0 THEN <<>> ELSE SubSeq(s, IndexOf(s, <<c>>) + 1, Len(s))

\* the text before the last c (empty without one), and after it (all of s)
BeforeLast(s, c) == SubSeq(s, 1, LastIndexOfChar(s, c) - 1)
AfterLast(s, c) == SubSeq(s, LastIndexOfChar(s, c) + 1, Len(s))

\* the URL parser percent-encodes what it keeps of the user, the password
\* and the path: a space becomes %20
RECURSIVE PercentEncode(_)
PercentEncode(s) ==
  IF s = <<>> THEN <<>>
  ELSE (IF Head(s) = " " THEN <<"%", "2", "0">> ELSE <<Head(s)>>) \o PercentEncode(Tail(s))

\* the host of an ftp URL is a domain and is lowercased; that of an ftps URL
\* is opaque and kept as written
UrlRecord(secure, username, password, hostname, portStr, pathname, valid) ==
  [valid |-> valid,
   protocol |-> IF secure THEN "ftps:" ELSE "ftp:",
   hostname |-> IF secure THEN hostname ELSE ToLowerCase(hostname),
   port |-> IF ~valid \/ portStr = <<>> \/ (~secure /\ DigitsValue(portStr) = 21)
            THEN <<>> ELSE NatToString(DigitsValue(portStr)),
   username |-> PercentEncode(username),
   password |-> PercentEncode(password),
   pathname |-> IF pathname = <<>> /\ ~secure THEN <<"/">> ELSE PercentEncode(pathname)]

UrlHostPort(secure, username, password, hostname, portStr, pathname) ==
  UrlRecord(secure, username, password, hostname, portStr, pathname,
            /\ hostname # <<>>
            /\ AllDigits(portStr)
            /\ (portStr # <<>> => DigitsValue(portStr) <= 65535))

UrlAuthority(secure, userinfo, hostport, pathname) ==
  UrlHostPort(secure, BeforeFirst(userinfo, ":"), AfterFirst(userinfo, ":"),
              (IF LastIndexOfChar(hostport, ":") = 0 THEN hostport
               ELSE BeforeLast(hostport, ":")),
              (IF LastIndexOfChar(hostport, ":") = 0 THEN <<>>
               ELSE AfterLast(hostport, ":")),
              pathname)

UrlRest(secure, rest) ==
  IF secure /\ BeforeFirst(rest, "/") = <<>>
  THEN UrlRecord(TRUE, <<>>, <<>>, <<>>, <<>>, FromFirst(rest, "/"), TRUE)
  ELSE
  UrlAuthority(secure, BeforeLast(BeforeFirst(rest, "/"), "@"),
               AfterLast(BeforeFirst(rest, "/"), "@"), FromFirst(rest, "/"))

\* new URL(ftpPath) as far as the handlers read it: scheme://[user[:password]@]
\* host[:port][/path]; it throws (valid is false) on an empty host and on a
\* port that is no number below 65536, and reports an empty port for the
\* scheme's default port.  ftp is a special scheme and ftps is not: an ftps
\* URL with an empty authority is accepted, with an empty hostname
ParseUrl(s) ==
  IF StartsWith(s, FtpsScheme)
  THEN UrlRest(TRUE, SubSeq(s, Len(FtpsScheme) + 1, Len(s)))
  ELSE UrlRest(FALSE, SubSeq(s, Len(FtpScheme) + 1, Len(s)))

Anonymous == <<"a", "n", "o", "n", "y", "m", "o", "u", "s">>

NullConfig ==
  [isNull |-> TRUE, host |-> <<>>, port |-> 0, user |-> <<>>, password |-> <<>>,
   path |-> <<>>, secure |-> FALSE]

\* lines 354-361: the configuration read off the URL
ConfigOfUrl(url) ==
  IF ~url.valid THEN NullConfig
  ELSE [isNull |-> FALSE,
        host |-> url.hostname,
        port |-> IF url.port # <<>> THEN ParseInt(url.port).v ELSE 21,
        user |-> IF url.username # <<>> THEN url.username ELSE Anonymous,
        password |-> url.password,
        path |-> IF url.pathname # <<>> THEN url.pathname ELSE <<"/">>,
        secure |-> url.protocol = "ftps:"]

parseFtpPath(ftpPath) == ConfigOfUrl(ParseUrl(ftpPath))

\* line 323: `${host}:${port}:${user}`
PoolKey(ftpConfig) ==
  ftpConfig.host \o <<":">> \o NatToString(ftpConfig.port) \o <<":">> \o ftpConfig.user

(***************************************************************************)
(* Thumbnail cache (server.js 262-305).                                    *)
(***************************************************************************)
\* crypto md5 hex digest: a fixed-length hexadecimal string, distinct for the
\* identifiers of the model
Identifiers == <<PathJpg, PathSvg, PathGif, FtpJpg, FtpBad, PathVideo>>

Hash(filePath) ==
  IF \E k \in 1..Len(Identifiers) : Identifiers[k] = filePath
  THEN <<"a", Digits[(CHOOSE k \in 1..Len(Identifiers) : Identifiers[k] = filePath) + 1]>>
  ELSE <<"f", "f">>

DotJpg == <<".", "j", "p", "g">>

getCacheFilename(filePath, modifiedTime) ==
  Hash(filePath) \o <<"_">> \o NatToString(modifiedTime) \o DotJpg

CacheNames(dir) == {f.name : f \in dir}

\* existsSync(cachePath) that finds nothing
CacheNeverExists(dir, name) == FALSE

\* existsSync(cachePath), line 273
CacheExists(dir, name) == name \in CacheNames(dir)

CacheData(dir, name) == (CHOOSE f \in dir : f.name = name).data

\* fs.writeFile: creates the file or replaces its content
CacheWrite(dir, name, data) ==
  {f \in dir : f.name # name} \cup {[name |-> name, data |-> data]}

\* fs.unlink
CacheUnlink(dir, name) == {f \in dir : f.name # name}

\* lines 292-298 without the clean-up: nothing is stale
StaleSiblingsNone(dir, filePath, cacheFilename) == {}

\* a clean-up that takes every other file of the directory for a sibling
StaleSiblingsAnyHash(dir, filePath, cacheFilename) == CacheNames(dir) \ {cacheFilename}

\* a clean-up that does not spare the file about to be written
StaleSiblingsAll(dir, filePath, cacheFilename) ==
  {n \in CacheNames(dir) : StartsWith(n, Hash(filePath) \o <<"_">>)}

\* lines 292-298: the files the clean-up loop unlinks
StaleSiblings(dir, filePath, cacheFilename) ==
  {n \in CacheNames(dir) :
     StartsWith(n, Hash(filePath) \o <<"_">>) /\ n # cacheFilename}

\* sharp(buffer).resize(200, 150, cover).jpeg(quality 60).toBuffer(): rejects
\* bytes it cannot decode, otherwise a JPEG that depends on the input alone
SharpDecodes(imageBuffer) == imageBuffer # <<>> /\ imageBuffer[1] # 0

SharpThumbnail(imageBuffer) == <<255, 216>> \o Tail(imageBuffer)

(***************************************************************************)
(* Requests in flight.  A request is a record whose pc names the await it  *)
(* is suspended at; one action runs it to its next await.                  *)
(***************************************************************************)
EmptyResults == [total |-> 0, generated |-> 0, cached |-> 0, skipped |-> 0, errors |-> <<>>]

NewProc(kind, solo) ==
  [kind |-> kind, pc |-> "start", solo |-> solo,
   filePath |-> <<>>, modifiedTime |-> 0, ext |-> <<>>,
   ftpConfig |-> NullConfig, client |-> 0,
   imageBuffer |-> <<>>, thumbnail |-> <<>>,
   cacheFilename |-> <<>>, pending |-> {},
   res |-> NoResponse, error |-> "",
   cacheReads |-> 0, srcReads |-> 0, resizes |-> 0, connects |-> 0, cacheWrites |-> 0,
   files |-> <<>>, i |-> 0, results |-> EmptyResults, out |-> <<>>,
   outcomes |-> <<>>,
   range |-> <<>>, stream |-> <<>>, fetched |-> 0, gone |-> FALSE, stale |-> 0]

Done(p) == p.pc = "done"

AllDone == \A k \in 1..Len(procs) : Done(procs[k])

ExtSvg == <<".", "s", "v", "g">>
ExtGif == <<".", "g", "i", "f">>

\* neither SVG nor GIF (lines 590, 701)
Raster(p) == p.ext # ExtSvg /\ p.ext # ExtGif

\* lines 325-328: the cached client of the key when it is not closed, else 0
PoolLookup(conns, cls, ftpConfig) ==
  LET hits == {e \in conns : e.key = PoolKey(ftpConfig)}
  IN IF hits = {} THEN 0
     ELSE LET c == (CHOOSE e \in hits : TRUE).client
          IN IF cls[c].closed THEN 0 ELSE c

\* ftpConnections.set that stores nothing
PoolSetNothing(conns, key, c) == conns

\* a table that keeps the earlier session of the key beside the new one
PoolSetKeepingOld(conns, key, c) == conns \cup {[key |-> key, client |-> c]}

\* ftpConnections.set(key, client)
PoolSet(conns, key, c) == {e \in conns : e.key # key} \cup {[key |-> key, client |-> c]}

\* res.status(status).json({ error }) or res.send(body), ending the request
Respond(p, res) == [p EXCEPT !.pc = "done", !.res = res]

ThumbOk(contentType, body) == Response(200, <<>>, "", <<>>, contentType, body, "")

\* Math.round((i + 1) / files.length * 100)
Progress(i, n) == (200 * (i + 1) + n) \div (2 * n)

ProgressEvent(p, status) ==
  [complete |-> FALSE, progress |-> Progress(p.i, Len(p.files)), current |-> p.i + 1,
   total |-> Len(p.files), status |-> status, file |-> p.files[p.i + 1].name,
   results |-> EmptyResults]

CompleteEvent(p) ==
  [complete |-> TRUE, progress |-> 0, current |-> 0, total |-> 0, status |-> "",
   file |-> <<>>, results |-> p.results]

\* a skip that moves on without counting the record
BulkSkipUncounted(p) ==
  [p EXCEPT !.i = @ + 1, !.outcomes = Append(@, "skipped")]

\* lines 692-695, 701-704: results.skipped++; continue
BulkSkip(p) ==
  [p EXCEPT !.results.skipped = @ + 1, !.i = @ + 1,
            !.outcomes = Append(@, "skipped")]

\* on to the next file without an entry in results.errors
BulkErrorUnlisted(p, message) ==
  [p EXCEPT !.i = @ + 1, !.outcomes = Append(@, message)]

\* lines 728, 745, 776: results.errors.push({ file, error }); on to the next file
BulkError(p, message) ==
  [p EXCEPT !.results.errors = Append(@, [file |-> p.files[p.i + 1].name, error |-> message]),
            !.i = @ + 1,
            !.outcomes = Append(@, message)]

\* a cache hit that is counted but writes no progress line
BulkCachedSilent(p) ==
  [p EXCEPT !.results.cached = @ + 1, !.i = @ + 1, !.outcomes = Append(@, "cached")]

\* lines 710-720: results.cached++, a progress line, continue
BulkCached(p) ==
  [p EXCEPT !.results.cached = @ + 1,
            !.out = Append(@, ProgressEvent(p, "cached")),
            !.i = @ + 1,
            !.outcomes = Append(@, "cached")]

\* lines 763-772: results.generated++, a progress line
BulkGenerated(p) ==
  [p EXCEPT !.results.generated = @ + 1,
            !.out = Append(@, ProgressEvent(p, "generated")),
            !.i = @ + 1,
            !.outcomes = Append(@, "generated")]

AcquireWith(p, c, ftpConfig, pcWithClient) ==
  IF c # 0
  THEN [p EXCEPT !.ftpConfig = ftpConfig, !.client = c, !.pc = pcWithClient,
                 !.srcReads = IF pcWithClient = "download" THEN @ + 1 ELSE @]
  ELSE [p EXCEPT !.ftpConfig = ftpConfig, !.pc = "ftpAccess", !.connects = @ + 1]

\* lines 325-326: the cached session of the key when it reports itself closed
\* (0 when there is none, or it is open)
ClosedHit(conns, cls, ftpConfig) ==
  LET hits == {e \in conns : e.key = PoolKey(ftpConfig) /\ cls[e.client].closed}
  IN IF hits = {} THEN 0 ELSE (CHOOSE e \in hits : TRUE).client

\* getFtpConnection up to its await (lines 322-334): a cached open client is
\* returned at once, otherwise client.access is awaited
Acquire(p, conns, cls, ftpConfig, pcWithClient) ==
  AcquireWith([p EXCEPT !.stale = ClosedHit(conns, cls, ftpConfig)],
              PoolLookup(conns, cls, ftpConfig), ftpConfig, pcWithClient)

\* lines 723-749 up to the first await: what becomes of the current file when
\* its image buffer is asked for
FetchOutcome(filePath) ==
  IF isFtpPath(filePath)
  THEN IF parseFtpPath(filePath).isNull THEN "Invalid FTP path" ELSE "await"
  ELSE IF ~existsSync(filePath) THEN "File not found" ELSE "await"

\* the loop waits for the source of the current file (lines 731-748)
BulkWait(p, conns, cls) ==
  IF isFtpPath(p.filePath)
  THEN Acquire(p, conns, cls, parseFtpPath(p.filePath), "download")
  ELSE [p EXCEPT !.pc = "readSrc", !.srcReads = @ + 1]

\* lines 689, 698, 707: the loop turns to file i
BulkEnter(p, file) ==
  [p EXCEPT !.filePath = file.path,
            !.ext = ToLowerCase(ExtName(file.path, Seps)),
            !.modifiedTime = file.modified,
            !.cacheFilename = getCacheFilename(file.path, file.modified)]

\* res.write of the summary and res.end(), lines 780-786
BulkEnd(p) ==
  [p EXCEPT !.out = Append(@, CompleteEvent(p)),
            !.pc = "done",
            !.res = Response(200, <<>>, "", <<>>, "application/json", <<>>, "")]

RECURSIVE BulkLoop(_, _, _, _)
RECURSIVE BulkFetch(_, _, _, _)
\* lines 688-787: the loop from file i on, up to its next await: files that
\* are no images, and SVG and GIF files, are skipped; a file with a cache file
\* waits for it to be read; the others go on to their source
BulkLoop(p, dir, conns, cls) ==
  IF p.i >= Len(p.files) THEN BulkEnd(p)
  ELSE IF p.files[p.i + 1].type # "image" THEN BulkLoop(BulkSkip(p), dir, conns, cls)
  ELSE IF ~Raster(BulkEnter(p, p.files[p.i + 1]))
  THEN BulkLoop(BulkSkip(BulkEnter(p, p.files[p.i + 1])), dir, conns, cls)
  ELSE IF CacheExists(dir, getCacheFilename(p.files[p.i + 1].path, p.files[p.i + 1].modified))
  THEN [BulkEnter(p, p.files[p.i + 1]) EXCEPT !.cacheReads = @ + 1, !.pc = "cacheRead"]
  ELSE BulkFetch([BulkEnter(p, p.files[p.i + 1]) EXCEPT !.cacheReads = @ + 1],
                 dir, conns, cls)

\* lines 723-749 for the current file, after getCachedThumbnail returned null
BulkFetch(p, dir, conns, cls) ==
  IF FetchOutcome(p.filePath) # "await"
  THEN BulkLoop(BulkError(p, FetchOutcome(p.filePath)), dir, conns, cls)
  ELSE BulkWait(p, conns, cls)

\* lines 599-620: the image buffer, up to the first await
ThumbFetch(p, conns, cls) ==
  IF isFtpPath(p.filePath)
  THEN LET ftpConfig == parseFtpPath(p.filePath)
       IN IF ftpConfig.isNull
          THEN Respond(p, JsonError(400, "Invalid FTP path"))
          ELSE Acquire(p, conns, cls, ftpConfig, "download")
  ELSE [p EXCEPT !.pc = "readSrc", !.srcReads = @ + 1]

\* lines 590-597: the cache is asked, except for SVG and GIF
ThumbLookup(p, dir, conns, cls) ==
  IF p.ext # ExtSvg /\ p.ext # ExtGif
  THEN IF CacheExists(dir, getCacheFilename(p.filePath, p.modifiedTime))
       THEN [p EXCEPT !.cacheFilename = getCacheFilename(p.filePath, p.modifiedTime),
                      !.cacheReads = @ + 1, !.pc = "cacheRead"]
       ELSE ThumbFetch([p EXCEPT !.cacheFilename = getCacheFilename(p.filePath, p.modifiedTime),
                                 !.cacheReads = @ + 1], conns, cls)
  ELSE ThumbFetch(p, conns, cls)

\* lines 571-597: the handler up to its first await
ThumbBegin(p, filePath, dir, conns, cls) ==
  IF ~isFtpPath(filePath) /\ ~existsSync(filePath)
  THEN Respond([p EXCEPT !.filePath = filePath,
                         !.ext = ToLowerCase(ExtName(filePath, Seps))],
               JsonError(404, "File not found"))
  ELSE ThumbLookup([p EXCEPT !.filePath = filePath,
                             !.ext = ToLowerCase(ExtName(filePath, Seps)),
                             !.modifiedTime = IF isFtpPath(filePath) THEN now
                                              ELSE localFs[filePath].mtime],
                   dir, conns, cls)

\* the catch of the loop body ending the job instead of recording the error
OnErrorAbort(p, message, dir, conns, cls) ==
  [p EXCEPT !.pc = "done", !.error = message]

\* a caller that answers a failure by trying the same operation once more
OnErrorRetry(p, message, dir, conns, cls) == [p EXCEPT !.connects = @ + 1]

\* an exception reaches the catch of the handler, or of the loop body
OnError(p, message, dir, conns, cls) ==
  CASE p.kind = "thumb" -> Respond(p, JsonError(500, "Failed to generate thumbnail"))
    [] p.kind = "bulk" -> BulkLoop(BulkError(p, message), dir, conns, cls)
    [] p.kind = "stream" -> Respond([p EXCEPT !.error = message], JsonError(500, message))
    [] OTHER -> [p EXCEPT !.pc = "done", !.error = message]

\* getCachedThumbnail returned the cached bytes (lines 593-596, 710-721)
OnCached(p, data, dir, conns, cls) ==
  IF p.kind = "thumb" THEN Respond(p, ThumbOk("image/jpeg", data))
  ELSE BulkLoop(BulkCached(p), dir, conns, cls)

\* getCachedThumbnail returned null
OnMiss(p, dir, conns, cls) ==
  IF p.kind = "thumb" THEN ThumbFetch(p, conns, cls)
  ELSE BulkFetch(p, dir, conns, cls)

\* lines 635-641 reached for every extension
OnBufferResizeAll(p, imageBuffer) ==
  [p EXCEPT !.imageBuffer = imageBuffer, !.pc = "sharp", !.resizes = @ + 1]

\* the image buffer is there (lines 622-641, 751-758)
OnBuffer(p, imageBuffer) ==
  IF p.kind = "thumb" /\ p.ext = ExtSvg THEN Respond(p, ThumbOk("image/svg+xml", imageBuffer))
  ELSE IF p.kind = "thumb" /\ p.ext = ExtGif THEN Respond(p, ThumbOk("image/gif", imageBuffer))
  ELSE [p EXCEPT !.imageBuffer = imageBuffer, !.pc = "sharp", !.resizes = @ + 1]

\* saveThumbnailToCache returned (lines 646-647, 763-772)
OnSaved(p, dir, conns, cls) ==
  IF p.kind = "thumb" THEN Respond(p, ThumbOk("image/jpeg", p.thumbnail))
  ELSE BulkLoop(BulkGenerated(p), dir, conns, cls)

(***************************************************************************)
(* The steps of a request: each resumes request k at the await it waits at.*)
(***************************************************************************)
\* whether an operation on the cache directory may fail in this run
IoOutcomes == IF ioFaults THEN {TRUE, FALSE} ELSE {TRUE}

SetProc(k, p) == procs' = [procs EXCEPT ![k] = p]

At(k, pc) == k \in 1..Len(procs) /\ procs[k].pc = pc

\* getCachedThumbnail, lines 273-280: fs.readFile of the cache file resolves
CacheReadDone(k) ==
  /\ At(k, "cacheRead")
  /\ \E ok \in IoOutcomes :
       SetProc(k, IF ok /\ CacheExists(cacheDir, procs[k].cacheFilename)
                  THEN OnCached(procs[k], CacheData(cacheDir, procs[k].cacheFilename),
                                cacheDir, ftpConnections, clients)
                  ELSE OnMiss(procs[k], cacheDir, ftpConnections, clients))
  /\ UNCHANGED <<envVars, mediaVars, now, cacheDir, ioFaults, ftpConnections, clients>>

\* fs.readFile(filePath) of the source resolves or rejects (lines 619, 748)
ReadSrcDone(k) ==
  /\ At(k, "readSrc")
  /\ \E ok \in BOOLEAN :
       SetProc(k, IF ok /\ existsSync(procs[k].filePath)
                  THEN OnBuffer(procs[k], localFs[procs[k].filePath].content)
                  ELSE OnError(procs[k], "read failed", cacheDir, ftpConnections, clients))
  /\ UNCHANGED <<envVars, mediaVars, now, cacheDir, ioFaults, ftpConnections, clients>>

\* a session whose connection was never established
NewClientUnconnected(ftpConfig) ==
  [key |-> PoolKey(ftpConfig), closed |-> TRUE,
   password |-> ftpConfig.password, secure |-> ftpConfig.secure]

NewClient(ftpConfig) ==
  [key |-> PoolKey(ftpConfig), closed |-> FALSE,
   password |-> ftpConfig.password, secure |-> ftpConfig.secure]

\* what the caller of getFtpConnection does with the client
OnClient(p, c) ==
  IF p.kind = "acquire" THEN [p EXCEPT !.client = c, !.pc = "done"]
  ELSE IF p.kind = "stream" THEN [p EXCEPT !.client = c, !.pc = "downloadTo"]
  ELSE [p EXCEPT !.client = c, !.pc = "download", !.srcReads = @ + 1]

\* getFtpConnection, lines 334-347: client.access resolves (the client is
\* stored under the key and returned) or rejects (the error is rethrown)
AccessDone(k) ==
  /\ At(k, "ftpAccess")
  /\ \E ok \in BOOLEAN :
       IF ok
       THEN /\ clients' = Append(clients, NewClient(procs[k].ftpConfig))
            /\ ftpConnections' = PoolSet(ftpConnections, PoolKey(procs[k].ftpConfig),
                                         Len(clients) + 1)
            /\ SetProc(k, OnClient(procs[k], Len(clients) + 1))
       ELSE /\ SetProc(k, OnError(procs[k], "connect failed", cacheDir, ftpConnections, clients))
            /\ UNCHANGED <<ftpConnections, clients>>
  /\ UNCHANGED <<envVars, mediaVars, now, cacheDir, ioFaults>>

\* client.downloadTo resolves with the whole remote file or rejects
\* (lines 616-617, 741-742)
DownloadDone(k) ==
  /\ At(k, "download")
  /\ \E ok \in BOOLEAN :
       SetProc(k, IF ok /\ ~clients[procs[k].client].closed
                  THEN OnBuffer(procs[k], RemoteContent(procs[k].ftpConfig.path))
                  ELSE OnError(procs[k], "download failed", cacheDir, ftpConnections, clients))
  /\ UNCHANGED <<envVars, mediaVars, now, cacheDir, ioFaults, ftpConnections, clients>>

\* sharp(...).toBuffer() resolves or rejects (lines 635-644, 752-761); on
\* success saveThumbnailToCache starts with fs.readdir
SharpDone(k) ==
  /\ At(k, "sharp")
  /\ SetProc(k, IF SharpDecodes(procs[k].imageBuffer)
                THEN [procs[k] EXCEPT !.thumbnail = SharpThumbnail(procs[k].imageBuffer),
                                      !.pc = "saveReaddir"]
                ELSE OnError(procs[k], "decode failed", cacheDir, ftpConnections, clients))
  /\ UNCHANGED <<envVars, mediaVars, now, cacheDir, ioFaults, ftpConnections, clients>>

\* saveThumbnailToCache, line 293: fs.readdir resolves; the loop of lines
\* 294-298 will unlink the stale siblings it lists
SaveReaddirDone(k) ==
  /\ At(k, "saveReaddir")
  /\ \E ok \in IoOutcomes :
       LET stale == StaleSiblings(cacheDir, procs[k].filePath, procs[k].cacheFilename)
       IN SetProc(k, IF ~ok THEN OnSaved(procs[k], cacheDir, ftpConnections, clients)
                     ELSE [procs[k] EXCEPT !.pending = stale,
                             !.pc = IF stale = {} THEN "saveWrite" ELSE "saveUnlink"])
  /\ UNCHANGED <<envVars, mediaVars, now, cacheDir, ioFaults, ftpConnections, clients>>

\* line 296: one fs.unlink resolves, or rejects (the file is gone, or the
\* directory refuses) and the catch of line 302 ends the save without writing
SaveUnlinkDone(k) ==
  /\ At(k, "saveUnlink")
  /\ \E ok \in IoOutcomes, n \in procs[k].pending :
       IF ok /\ CacheExists(cacheDir, n)
       THEN /\ cacheDir' = CacheUnlink(cacheDir, n)
            /\ SetProc(k, [procs[k] EXCEPT !.pending = @ \ {n},
                             !.pc = IF procs[k].pending = {n} THEN "saveWrite" ELSE "saveUnlink"])
       ELSE /\ SetProc(k, OnSaved([procs[k] EXCEPT !.pending = {}],
                                  cacheDir, ftpConnections, clients))
            /\ UNCHANGED cacheDir
  /\ UNCHANGED <<envVars, mediaVars, now, ioFaults, ftpConnections, clients>>

\* a write whose request then ends in the catch of the handler
SaveWriteDoneThenThrow(k) ==
  /\ At(k, "saveWrite")
  /\ cacheDir' = CacheWrite(cacheDir, procs[k].cacheFilename, procs[k].thumbnail)
  /\ SetProc(k, OnError([procs[k] EXCEPT !.cacheWrites = @ + 1], "send failed",
                        cacheDir', ftpConnections, clients))
  /\ UNCHANGED <<envVars, mediaVars, now, ioFaults, ftpConnections, clients>>

\* line 301: fs.writeFile resolves or rejects; either way the caller goes on
SaveWriteDone(k) ==
  /\ At(k, "saveWrite")
  /\ \E ok \in IoOutcomes :
       IF ok
       THEN /\ cacheDir' = CacheWrite(cacheDir, procs[k].cacheFilename, procs[k].thumbnail)
            /\ SetProc(k, OnSaved([procs[k] EXCEPT !.cacheWrites = @ + 1],
                                  cacheDir', ftpConnections, clients))
       ELSE /\ SetProc(k, OnSaved(procs[k], cacheDir, ftpConnections, clients))
            /\ UNCHANGED cacheDir
  /\ UNCHANGED <<envVars, mediaVars, now, ioFaults, ftpConnections, clients>>

(***************************************************************************)
(* Requests arriving, and the world changing under them.                   *)
(***************************************************************************)
\* a request whose cache lookup deletes the entries of the identifier
ThumbRequestEvicting(filePath) ==
  /\ Len(procs) < MaxRequests
  /\ procs' = Append(procs, ThumbBegin(NewProc("thumb", AllDone), filePath,
                                       cacheDir, ftpConnections, clients))
  /\ cacheDir' = {f \in cacheDir : ~StartsWith(f.name, Hash(filePath) \o <<"_">>)}
  /\ UNCHANGED <<envVars, mediaVars, now, ioFaults, ftpConnections, clients>>

\* GET /api/thumbnail/image/<filePath> arrives
ThumbRequest(filePath) ==
  /\ Len(procs) < MaxRequests
  /\ procs' = Append(procs, ThumbBegin(NewProc("thumb", AllDone), filePath,
                                       cacheDir, ftpConnections, clients))
  /\ UNCHANGED <<envVars, mediaVars, now, cacheDir, ioFaults, ftpConnections, clients>>

\* POST /api/generate-thumbnails arrives with an array of files (lines 669-688)
BulkRequest(files) ==
  /\ Len(procs) < MaxRequests
  /\ procs' = Append(procs,
       BulkLoop([NewProc("bulk", AllDone) EXCEPT !.files = files,
                                                 !.results.total = Len(files)],
                cacheDir, ftpConnections, clients))
  /\ UNCHANGED <<envVars, mediaVars, now, cacheDir, ioFaults, ftpConnections, clients>>

\* a caller enters getFtpConnection(ftpConfig)
AcquireRequest(ftpConfig) ==
  /\ Len(procs) < MaxAcquires
  /\ procs' = Append(procs, Acquire(NewProc("acquire", AllDone), ftpConnections, clients,
                                    ftpConfig, "done"))
  /\ UNCHANGED <<envVars, mediaVars, now, cacheDir, ioFaults, ftpConnections, clients>>

\* a local file is rewritten: new bytes of the same kind, a later mtime
Touch(path) ==
  /\ localFs[path].exists
  /\ localFs[path].mtime < MaxTime
  /\ localFs' = [localFs EXCEPT ![path] =
        PresentFile(<<localFs[path].content[1], localFs[path].mtime + 1>>,
                    localFs[path].mtime + 1)]
  /\ UNCHANGED <<platform, scanVars, call, page, mediaVars, cacheVars>>

\* a millisecond passes
Tick ==
  /\ now < MaxTime
  /\ now' = now + 1
  /\ UNCHANGED <<envVars, mediaVars, cacheDir, ioFaults, ftpConnections, clients, procs>>

\* the server, or a timeout, closes a session: client.closed becomes true
CloseClient(c) ==
  /\ c \in 1..Len(clients)
  /\ ~clients[c].closed
  /\ clients' = [clients EXCEPT ![c].closed = TRUE]
  /\ UNCHANGED <<envVars, mediaVars, now, cacheDir, ioFaults, ftpConnections, procs>>

Step(k) ==
  \/ CacheReadDone(k)
  \/ ReadSrcDone(k)
  \/ AccessDone(k)
  \/ DownloadDone(k)
  \/ SharpDone(k)
  \/ SaveReaddirDone(k)
  \/ SaveUnlinkDone(k)
  \/ SaveWriteDone(k)

(***************************************************************************)
(* Thumbnail requests and small bulk jobs, concurrently.                   *)
(***************************************************************************)
ThumbPaths == {PathJpg, PathSvg, PathGif, FtpJpg}

FileRecord(path, type, modified) ==
  [name |-> NameOf(path), path |-> path, type |-> type, modified |-> modified]

ThumbBulkLists ==
  {<<FileRecord(PathJpg, "image", m)>> : m \in 1..MaxTime}
    \cup {<<FileRecord(PathSvg, "image", 1)>>,
          <<FileRecord(PathGif, "image", 1), FileRecord(PathJpg, "image", 1)>>}

IdleMedia ==
  /\ mediaReq = [filePath |-> <<>>, range |-> <<>>]
  /\ mediaRes = NoResponse
  /\ ScanIdle

ThumbInit ==
  /\ platform = "posix"
  /\ localFs \in
       {[p \in LocalPaths |->
           CASE p = PathJpg -> jpg
             [] p = PathSvg -> PresentFile(<<60, 1>>, 1)
             [] p = PathGif -> gif
             [] OTHER -> AbsentFile] :
          jpg \in {PresentFile(GoodImage(1), 1), PresentFile(CorruptImage, 1)},
          gif \in {PresentFile(<<71, 1>>, 1)}}
  /\ IdleMedia
  /\ now = 1
  /\ cacheDir = {}
  /\ ioFaults = FALSE
  /\ ftpConnections = {}
  /\ clients = <<>>
  /\ procs = <<>>
  /\ call = NoCall
  /\ page = NoPage

ThumbNext ==
  \/ \E filePath \in ThumbPaths : ThumbRequest(filePath)
  \/ \E files \in ThumbBulkLists : BulkRequest(files)
  \/ \E k \in 1..Len(procs) : Step(k)
  \/ Touch(PathJpg)
  \/ Tick

SpecThumb == ThumbInit /\ [][ThumbNext]_vars

(***************************************************************************)
(* Properties of the thumbnail cache.                                      *)
(***************************************************************************)
\* request k ran with no other request in flight
Alone(k) == procs[k].solo /\ (k < Len(procs) => procs[k + 1].solo)

\* the names in the cache directory that start with the hash of filePath
HashEntries(filePath) ==
  {n \in CacheNames(cacheDir) : StartsWith(n, Hash(filePath) \o <<"_">>)}

\* requests k-1 and k are thumbnail requests for one raster identifier, made one
\* after the other with nothing else in flight, and both have ended
Successive(k) ==
  /\ procs[k - 1].kind = "thumb" /\ procs[k].kind = "thumb"
  /\ Alone(k - 1) /\ Alone(k)
  /\ Done(procs[k - 1]) /\ Done(procs[k])
  /\ procs[k].filePath = procs[k - 1].filePath
  /\ Raster(procs[k])

\* C2: of two successive thumbnail operations on a raster identifier with the
\* same (identifier, modifiedAt) pair, the first of which returned a thumbnail,
\* the second returns the same bytes, and it neither reads the source (local
\* read, connection or download) nor runs the resize/encode step.
C2_SecondFromCache ==
  \A k \in 2..Len(procs) :
    (/\ Successive(k)
     /\ procs[k].modifiedTime = procs[k - 1].modifiedTime
     /\ procs[k - 1].res.status = 200)
    => /\ procs[k].res = procs[k - 1].res
       /\ procs[k].srcReads = 0
       /\ procs[k].connects = 0
       /\ procs[k].resizes = 0

C2_Witness ==
  /\ Len(procs) = 2
  /\ Successive(2)
  /\ procs[2].modifiedTime = procs[1].modifiedTime
  /\ procs[1].resizes = 1
  /\ procs[1].res.status = 200
  /\ procs[2].res.body = SharpThumbnail(localFs[PathJpg].content)

\* C3: when a thumbnail was stored for X under t1 and the next thumbnail
\* operation, with nothing else in flight, produces a thumbnail for X under
\* t2 # t1, then afterwards the one cache entry with X's hash prefix is the one
\* named hash(X)_t2.
C3_Invalidation ==
  \A k \in 2..Len(procs) :
    (/\ Successive(k)
     /\ k = Len(procs)
     /\ procs[k - 1].cacheWrites = 1
     /\ procs[k].modifiedTime # procs[k - 1].modifiedTime
     /\ procs[k].res.status = 200)
    => HashEntries(procs[k].filePath)
         = {Hash(procs[k].filePath) \o <<"_">> \o NatToString(procs[k].modifiedTime) \o DotJpg}

C3_Witness ==
  /\ Len(procs) = 2
  /\ Successive(2)
  /\ procs[1].cacheWrites = 1
  /\ procs[1].modifiedTime = 1
  /\ procs[2].modifiedTime = 2
  /\ procs[2].res.status = 200
  /\ procs[2].filePath = PathJpg
  /\ CacheNames(cacheDir) = {getCacheFilename(PathJpg, 2)}

\* C4: in every reachable state, whatever the interleaving of thumbnail and
\* bulk requests, the cache directory holds at most one entry whose name starts
\* with the hash of any one identifier.
C4_OneEntryPerHash ==
  \A x \in 1..Len(Identifiers) : Cardinality(HashEntries(Identifiers[x])) <= 1

\* C8: a thumbnail operation on an .svg or .gif identifier that answers 200
\* answers the source bytes with the svg/gif content type, having run no
\* resize and asked the cache nothing; no request is ever at the resize, at a
\* cache read or inside the save on behalf of such an identifier, be it a
\* thumbnail request or a bulk job; and no step of a request whose current
\* identifier is .svg or .gif changes the cache directory.
C8_SvgGifState ==
  \A k \in 1..Len(procs) :
    (procs[k].filePath # <<>> /\ ~Raster(procs[k])) =>
      /\ procs[k].pc \notin {"cacheRead", "sharp", "saveReaddir", "saveUnlink", "saveWrite"}
      /\ procs[k].kind = "thumb" =>
           /\ procs[k].resizes = 0 /\ procs[k].cacheReads = 0 /\ procs[k].cacheWrites = 0
           /\ (Done(procs[k]) /\ procs[k].res.status = 200) =>
                /\ procs[k].res.body = localFs[procs[k].filePath].content
                /\ procs[k].res.contentType =
                     (IF procs[k].ext = ExtSvg THEN "image/svg+xml" ELSE "image/gif")

C8_SvgGifStep ==
  \A k \in 1..Len(procs) :
    (procs'[k] # procs[k] /\ procs[k].filePath # <<>> /\ ~Raster(procs[k]))
      => cacheDir' = cacheDir

C8_SvgGifPassThrough == [](C8_SvgGifState) /\ [][C8_SvgGifStep]_vars

C8_Witness ==
  \E k \in 1..Len(procs) :
    /\ procs[k].kind = "thumb" /\ procs[k].filePath = PathGif
    /\ Done(procs[k]) /\ procs[k].res.status = 200
    /\ procs[k].res.body = <<71, 1>>
    /\ procs[k].srcReads = 1
    /\ cacheDir # {}


(***************************************************************************)
(* The connection pool on its own: callers of getFtpConnection, and the    *)
(* servers closing sessions.                                               *)
(***************************************************************************)
PoolConfigs == {parseFtpPath(FtpJpg), parseFtpPath(FtpPw), parseFtpPath(FtpOther)}

PoolInit ==
  /\ platform = "posix"
  /\ localFs = [p \in LocalPaths |-> AbsentFile]
  /\ IdleMedia
  /\ now = 1
  /\ cacheDir = {}
  /\ ioFaults = FALSE
  /\ ftpConnections = {}
  /\ clients = <<>>
  /\ procs = <<>>
  /\ call = NoCall
  /\ page = NoPage

PoolNext ==
  \/ \E ftpConfig \in PoolConfigs : AcquireRequest(ftpConfig)
  \/ \E k \in 1..Len(procs) : AccessDone(k)
  \/ \E c \in 1..Len(clients) : CloseClient(c)

SpecPool == PoolInit /\ [][PoolNext]_vars

SameEndpoint(a, b) == a.host = b.host /\ a.port = b.port /\ a.user = b.user

\* the call before this one ran alone, returned a session for the same
\* (host, port, user), and that session is open now
PreviousOpen(q) ==
  /\ procs # <<>>
  /\ procs[Len(procs)].kind = "acquire"
  /\ procs[Len(procs)].solo
  /\ Done(procs[Len(procs)])
  /\ procs[Len(procs)].error = ""
  /\ SameEndpoint(procs[Len(procs)].ftpConfig, q.ftpConfig)
  /\ ~clients[procs[Len(procs)].client].closed

\* C5: when getFtpConnection is called right after a call with the same
\* (host, port, user) has returned, and the session that call stored is still
\* open, the new call returns that very session at once and opens no
\* connection.
C5_SessionReuse ==
  [][\A q \in {procs'[Len(procs')]} :
       (Len(procs') = Len(procs) + 1 /\ q.kind = "acquire" /\ PreviousOpen(q))
         => /\ q.pc = "done"
            /\ q.client = procs[Len(procs)].client
            /\ q.connects = 0
            /\ clients' = clients]_vars

C5_Witness ==
  /\ Len(procs) = 2
  /\ procs[1].kind = "acquire" /\ procs[2].kind = "acquire"
  /\ procs[1].ftpConfig # procs[2].ftpConfig
  /\ SameEndpoint(procs[1].ftpConfig, procs[2].ftpConfig)
  /\ procs[1].connects = 1 /\ procs[2].connects = 0
  /\ procs[2].client = procs[1].client
  /\ Done(procs[2])
  /\ Len(clients) = 1


(***************************************************************************)
(* The path module, as far as the scan uses it.                            *)
(***************************************************************************)
\* path.sep
Sep == IF platform = "win32" THEN "\\" ELSE "/"

FirstSep(p, seps) ==
  IF \E i \in 1..Len(p) : p[i] \in seps
  THEN CHOOSE i \in 1..Len(p) : p[i] \in seps /\ \A j \in 1..(i - 1) : p[j] \notin seps
  ELSE Len(p) + 1

RECURSIVE Segments(_, _)
\* the non-empty pieces of a path between separators
Segments(p, seps) ==
  IF p = <<>> THEN <<>>
  ELSE IF p[1] \in seps THEN Segments(Tail(p), seps)
  ELSE <<SubSeq(p, 1, FirstSep(p, seps) - 1)>>
         \o Segments(SubSeq(p, FirstSep(p, seps), Len(p)), seps)

RECURSIVE JoinWith(_, _)
JoinWith(segs, sep) ==
  IF segs = <<>> THEN <<>>
  ELSE IF Len(segs) = 1 THEN segs[1]
  ELSE segs[1] \o <<sep>> \o JoinWith(Tail(segs), sep)

\* path.posix.normalize and path.win32.normalize of a path without . and ..
\* segments: one separator between segments, the platform's own
PosixNormalize(p) ==
  (IF p # <<>> /\ p[1] = "/" THEN <<"/">> ELSE <<>>) \o JoinWith(Segments(p, PosixSeps), "/")

Win32Normalize(p) ==
  (IF p # <<>> /\ p[1] \in Win32Seps THEN <<"\\">> ELSE <<>>)
    \o JoinWith(Segments(p, Win32Seps), "\\")

\* path.posix.join(a, b)
PosixJoin(a, b) == PosixNormalize(a \o <<"/">> \o b)

\* path.join(a, b)
PathJoin(a, b) ==
  IF platform = "win32" THEN Win32Normalize(a \o <<"\\">> \o b) ELSE PosixJoin(a, b)

\* the length of the longest common prefix of two sequences
CommonPrefix(a, b) ==
  CHOOSE n \in 0..Min(Len(a), Len(b)) :
    /\ \A i \in 1..n : a[i] = b[i]
    /\ n = Min(Len(a), Len(b)) \/ a[n + 1] # b[n + 1]

LowerAll(segs) == [i \in 1..Len(segs) |-> ToLowerCase(segs[i])]

\* one .. for each segment of from below the common part, then the rest of to
RelativeSegs(from, to, n) ==
  [i \in 1..(Len(from) - n) |-> <<".", ".">>] \o SubSeq(to, n + 1, Len(to))

\* path.posix.relative of two absolute paths
PosixRelative(from, to) ==
  JoinWith(RelativeSegs(Segments(from, PosixSeps), Segments(to, PosixSeps),
                        CommonPrefix(Segments(from, PosixSeps), Segments(to, PosixSeps))),
           "/")

\* path.win32.relative of two absolute paths: compared without regard to
\* case, written with backslashes
Win32Relative(from, to) ==
  JoinWith(RelativeSegs(Segments(from, Win32Seps), Segments(to, Win32Seps),
                        CommonPrefix(LowerAll(Segments(from, Win32Seps)),
                                     LowerAll(Segments(to, Win32Seps)))),
           "\\")

\* path.relative(from, to)
PathRelative(from, to) ==
  IF platform = "win32" THEN Win32Relative(from, to) ELSE PosixRelative(from, to)

(***************************************************************************)
(* POST /api/scan-directory.  A directory is named by the names that lead  *)
(* to it from the scanned root; dirTree gives each directory's listing in  *)
(* the order readdir (or LIST) returns it.                                 *)
(***************************************************************************)
NameA == <<"a", ".", "m", "p", "4">>
NameB == <<"B", ".", "J", "P", "G">>
NameN == <<"n", ".", "t", "x", "t">>
NameS == <<"s">>
NameC == <<"c", ".", "p", "n", "g">>
NameL == <<"l", ".", "m", "p", "4">>
NameT == <<"t">>
NameD == <<"d", ".", "m", "k", "v">>

RootDir == <<>>
DirS == <<NameS>>
DirT == <<NameS, NameT>>
DirIds == {RootDir, DirS, DirT}

\* a directory entry: a regular file, a directory, or something else (a link)
Entry(name, kind, size) == [name |-> name, kind |-> kind, size |-> size, mtime |-> 1]

RootEntries ==
  {Entry(NameA, "file", 5), Entry(NameB, "file", 6), Entry(NameN, "file", 7),
   Entry(NameS, "dir", 0)}
SEntries == {Entry(NameC, "file", 8), Entry(NameL, "other", 0), Entry(NameT, "dir", 0)}
TEntries == {Entry(NameD, "file", 9)}

\* the listings of at most MaxEntries entries, in any order
Listings(entries) ==
  {l \in UNION {[1..n -> entries] : n \in 0..MaxEntries} :
     \A i, j \in 1..Len(l) : l[i] = l[j] => i = j}

\* the directory the user names, on each platform
ScanRoot ==
  IF platform = "win32" THEN <<"C", ":", "/", "m">> ELSE <<"/", "m">>
NoSuchDir == <<"/", "x">>
FtpRoot == <<"f","t","p",":","/","/","u","@","h","/","r">>
FtpPwRoot == <<"f","t","p",":","/","/","u",":","p","@","h","/","r">>
FtpsRoot == <<"f","t","p","s",":","/","/","u","@","h",":","9","9","0","/","r">>
FtpRoots == {FtpRoot, FtpPwRoot, FtpsRoot}

ScanResponse(status, error, directory, files) ==
  [status |-> status, error |-> error, directory |-> directory,
   count |-> Len(files), files |-> files]

NoScan == ScanResponse(0, "", <<>>, <<>>)

\* lines 402-410: the record pushed for a local file
LocalRecord(entry, fullPath, baseDir) ==
  [name |-> entry.name,
   path |-> fullPath,
   relativePath |-> PathRelative(baseDir, fullPath),
   size |-> entry.size,
   modified |-> entry.mtime,
   type |-> getMediaType(entry.name, Seps),
   source |-> "local"]

RECURSIVE getMediaFilesRecursive(_, _, _)
RECURSIVE LocalEntries(_, _, _, _, _)
\* lines 394-414: the loop over the listing from entry i on; a rejected
\* fs.stat leaves the loop for the catch of line 415, which returns the
\* records collected so far
LocalEntries(dirPath, dirId, baseDir, i, files) ==
  IF i > Len(dirTree[dirId]) THEN files
  ELSE IF dirTree[dirId][i].kind = "dir"
  THEN LocalEntries(dirPath, dirId, baseDir, i + 1,
         files \o getMediaFilesRecursive(PathJoin(dirPath, dirTree[dirId][i].name),
                                         Append(dirId, dirTree[dirId][i].name), baseDir))
  ELSE IF dirTree[dirId][i].kind = "file" /\ isMediaFile(dirTree[dirId][i].name, Seps)
  THEN IF dirTree[dirId][i].name \in scanFaults.stat
       THEN files
       ELSE LocalEntries(dirPath, dirId, baseDir, i + 1,
              Append(files, LocalRecord(dirTree[dirId][i],
                                        PathJoin(dirPath, dirTree[dirId][i].name), baseDir)))
  ELSE LocalEntries(dirPath, dirId, baseDir, i + 1, files)

\* lines 390-421: a rejected fs.readdir is caught and the directory yields
\* no records
getMediaFilesRecursive(dirPath, dirId, baseDir) ==
  IF dirId \in scanFaults.readdir THEN <<>>
  ELSE LocalEntries(dirPath, dirId, baseDir, 1, <<>>)

\* lines 438-447: the record pushed for a remote file
FtpRecord(ftpConfig, item, itemPath) ==
  [name |-> item.name,
   path |-> FtpScheme \o ftpConfig.user \o <<"@">> \o ftpConfig.host \o <<":">>
              \o NatToString(ftpConfig.port) \o itemPath,
   relativePath |-> PosixRelative(<<"/">>, itemPath),
   size |-> item.size,
   modified |-> item.mtime,
   type |-> getMediaType(item.name, Seps),
   source |-> "ftp",
   ftpConfig |-> ftpConfig]

RECURSIVE scanDirectory(_, _, _)
RECURSIVE FtpItems(_, _, _, _, _)
\* lines 434-449: the loop over the listing from item i on
FtpItems(ftpConfig, dirPath, dirId, i, files) ==
  IF i > Len(dirTree[dirId]) THEN files
  ELSE IF dirTree[dirId][i].kind = "dir"
  THEN FtpItems(ftpConfig, dirPath, dirId, i + 1,
         files \o scanDirectory(ftpConfig, PosixJoin(dirPath, dirTree[dirId][i].name),
                                Append(dirId, dirTree[dirId][i].name)))
  ELSE IF dirTree[dirId][i].kind = "file" /\ isMediaFile(dirTree[dirId][i].name, Seps)
  THEN FtpItems(ftpConfig, dirPath, dirId, i + 1,
         Append(files, FtpRecord(ftpConfig, dirTree[dirId][i],
                                 PosixJoin(dirPath, dirTree[dirId][i].name))))
  ELSE FtpItems(ftpConfig, dirPath, dirId, i + 1, files)

\* lines 430-453: a rejected client.list is caught and the directory adds
\* nothing to the records
scanDirectory(ftpConfig, dirPath, dirId) ==
  IF dirId \in scanFaults.readdir THEN <<>>
  ELSE FtpItems(ftpConfig, dirPath, dirId, 1, <<>>)

\* existsSync(directory) and statSync(directory).isDirectory(), lines 487-494
ScanExists(directory) ==
  directory = ScanRoot \/ (directory \in LocalPaths /\ localFs[directory].exists)

IsDirectoryAlways(directory) == TRUE

IsDirectory(directory) == directory = ScanRoot

\* lines 424-465 and 500-504: the remote scan over the pooled session; a
\* failed connection is rethrown and answered with 500
ScanFtp(directory, ftpConfig) ==
  \E ok \in BOOLEAN :
    IF PoolLookup(ftpConnections, clients, ftpConfig) = 0 /\ ~ok
    THEN /\ scanRes' = ScanResponse(500, "connect failed", <<>>, <<>>)
         /\ UNCHANGED <<ftpConnections, clients>>
    ELSE /\ scanRes' = ScanResponse(200, "", directory,
                                    scanDirectory(ftpConfig, ftpConfig.path, RootDir))
         /\ IF PoolLookup(ftpConnections, clients, ftpConfig) = 0
            THEN /\ clients' = Append(clients, NewClient(ftpConfig))
                 /\ ftpConnections' = PoolSet(ftpConnections, PoolKey(ftpConfig),
                                              Len(clients) + 1)
            ELSE UNCHANGED <<ftpConnections, clients>>

\* lines 468-507: POST /api/scan-directory with { directory }
ScanRequest(directory) ==
  /\ scanRes = NoScan
  /\ scanReq' = directory
  /\ IF directory = <<>>
     THEN /\ scanRes' = ScanResponse(400, "Directory path is required", <<>>, <<>>)
          /\ UNCHANGED <<ftpConnections, clients>>
     ELSE IF isFtpPath(directory)
     THEN IF parseFtpPath(directory).isNull
          THEN /\ scanRes' = ScanResponse(400, "Invalid FTP path format", <<>>, <<>>)
               /\ UNCHANGED <<ftpConnections, clients>>
          ELSE ScanFtp(directory, parseFtpPath(directory))
     ELSE /\ scanRes' =
               IF ~ScanExists(directory)
               THEN ScanResponse(404, "Directory not found", <<>>, <<>>)
               ELSE IF ~IsDirectory(directory)
               THEN ScanResponse(400, "Path is not a directory", <<>>, <<>>)
               ELSE ScanResponse(200, "", directory,
                                 getMediaFilesRecursive(directory, RootDir, directory))
          /\ UNCHANGED <<ftpConnections, clients>>
  /\ UNCHANGED <<platform, localFs, dirTree, scanFaults, call, page, mediaVars,
                 now, cacheDir, ioFaults, procs>>

ScanDirectories == {<<>>, ScanRoot, NoSuchDir, PathVideo, FtpBad} \cup FtpRoots

ScanInit ==
  /\ platform \in {"posix", "win32"}
  /\ localFs = [p \in LocalPaths |->
                  IF p = PathVideo THEN PresentFile(FileContent(1), 1) ELSE AbsentFile]
  /\ mediaReq = [filePath |-> <<>>, range |-> <<>>]
  /\ mediaRes = NoResponse
  /\ dirTree \in
       {[d \in DirIds |->
           CASE d = RootDir -> root [] d = DirS -> s [] OTHER -> t] :
          root \in Listings(RootEntries), s \in Listings(SEntries), t \in Listings(TEntries)}
  /\ scanFaults \in [readdir : SUBSET DirIds, stat : SUBSET {NameA, NameC}]
  /\ scanReq = <<>>
  /\ scanRes = NoScan
  /\ now = 1
  /\ cacheDir = {}
  /\ ioFaults = FALSE
  /\ ftpConnections = {}
  /\ clients = <<>>
  /\ procs = <<>>
  /\ call = NoCall
  /\ page = NoPage

ScanNext == \E directory \in ScanDirectories : ScanRequest(directory)

SpecScan == ScanInit /\ [][ScanNext]_vars

(***************************************************************************)
(* Properties of the scan.                                                 *)
(***************************************************************************)
RECURSIVE MediaFilesUnder(_)
\* the regular files with a media extension in a directory and below it, each
\* named by the names that lead to it from the scanned root
MediaFilesUnder(dirId) ==
  {Append(dirId, dirTree[dirId][i].name) :
     i \in {j \in 1..Len(dirTree[dirId]) :
              /\ dirTree[dirId][j].kind = "file"
              /\ isMediaFile(dirTree[dirId][j].name, Seps)}}
  \cup UNION {MediaFilesUnder(Append(dirId, dirTree[dirId][i].name)) :
                i \in {j \in 1..Len(dirTree[dirId]) : dirTree[dirId][j].kind = "dir"}}

NoScanFaults == scanFaults = [readdir |-> {}, stat |-> {}]

LocalScanDone == scanRes.status = 200 /\ scanRes.directory = ScanRoot

RecordsOf(files) ==
  {[name |-> files[i].name, relativePath |-> files[i].relativePath] : i \in 1..Len(files)}

\* C9: the scan of a local tree without read errors returns one record for
\* each regular file, at any depth, that has a media extension, none for any
\* other file, and every record's relativePath is the path from the scanned
\* root written with forward slashes, on every platform.
C9_LocalScanExact ==
  (LocalScanDone /\ NoScanFaults) =>
    /\ scanRes.count = Cardinality(MediaFilesUnder(RootDir))
    /\ RecordsOf(scanRes.files) =
         {[name |-> segs[Len(segs)], relativePath |-> JoinWith(segs, "/")] :
            segs \in MediaFilesUnder(RootDir)}

\* the directories a scan reaches
ReachedDirs ==
  {d \in DirIds :
     \A n \in 1..Len(d) :
       \E i \in 1..Len(dirTree[SubSeq(d, 1, n - 1)]) :
         /\ dirTree[SubSeq(d, 1, n - 1)][i].name = d[n]
         /\ dirTree[SubSeq(d, 1, n - 1)][i].kind = "dir"}

\* the directories in which a scan meets an error: the listing fails, or (in
\* a local scan) the stat of one of its media files
FailingDirs(local) ==
  {d \in ReachedDirs :
     \/ d \in scanFaults.readdir
     \/ /\ local
        /\ \E i \in 1..Len(dirTree[d]) :
             /\ dirTree[d][i].kind = "file"
             /\ isMediaFile(dirTree[d][i].name, Seps)
             /\ dirTree[d][i].name \in scanFaults.stat}

IsUnder(segs, d) == Len(d) <= Len(segs) /\ SubSeq(segs, 1, Len(d)) = d

ScanAsked == scanRes.directory \in ({ScanRoot} \cup FtpRoots)

\* C10: when a scan, local or remote, meets an error in one directory, it
\* still answers 200, it reports no file of that directory's subtree, and it
\* reports every media file of the rest of the tree.
C10_FailingSubtreeOnly ==
  \A d \in DirIds :
    (ScanAsked /\ FailingDirs(scanRes.directory = ScanRoot) = {d}) =>
      /\ scanRes.status = 200
      /\ scanRes.count =
           Cardinality({segs \in MediaFilesUnder(RootDir) : ~IsUnder(segs, d)})
      /\ {scanRes.files[i].name : i \in 1..Len(scanRes.files)} =
           {segs[Len(segs)] : segs \in {x \in MediaFilesUnder(RootDir) : ~IsUnder(x, d)}}


RemoteScanDone == scanRes.status = 200 /\ scanRes.directory \in FtpRoots

\* the remote path of a file named by the names that lead to it from the root
RemotePathOf(root, segs) == PosixNormalize(root \o <<"/">> \o JoinWith(segs, "/"))

\* C11: the path of every record of a remote scan parses to the host, port,
\* user, password and secure flag of the parsed scan root, and to the remote
\* path of the record's file.
C11_RecordPathRoundTrip ==
  RemoteScanDone =>
    \A i \in 1..Len(scanRes.files) :
      /\ ~parseFtpPath(scanRes.files[i].path).isNull
      /\ parseFtpPath(scanRes.files[i].path).host = parseFtpPath(scanRes.directory).host
      /\ parseFtpPath(scanRes.files[i].path).port = parseFtpPath(scanRes.directory).port
      /\ parseFtpPath(scanRes.files[i].path).user = parseFtpPath(scanRes.directory).user
      /\ parseFtpPath(scanRes.files[i].path).password
           = parseFtpPath(scanRes.directory).password
      /\ parseFtpPath(scanRes.files[i].path).secure = parseFtpPath(scanRes.directory).secure
      /\ \E segs \in MediaFilesUnder(RootDir) :
           /\ segs[Len(segs)] = scanRes.files[i].name
           /\ parseFtpPath(scanRes.files[i].path).path
                = RemotePathOf(parseFtpPath(scanRes.directory).path, segs)

(***************************************************************************)
(* One bulk job over a list of records, with every failure the code can    *)
(* meet: absent files, bytes sharp rejects, invalid remote paths, failing  *)
(* connections and downloads, sessions closed under it, a cache directory  *)
(* that refuses to be read or written.                                     *)
(***************************************************************************)
BulkRecords ==
  {FileRecord(PathJpg, "image", 1), FileRecord(PathVideo, "video", 1),
   FileRecord(PathGif, "image", 1), FileRecord(FtpJpg, "image", 1),
   FileRecord(FtpBad, "image", 1)}

BulkLists == UNION {[1..n -> BulkRecords] : n \in 0..MaxFiles}

BulkInit ==
  /\ platform = "posix"
  /\ localFs \in
       {[p \in LocalPaths |->
           CASE p = PathJpg -> jpg
             [] p = PathGif -> PresentFile(<<71, 1>>, 1)
             [] OTHER -> AbsentFile] :
          jpg \in {PresentFile(GoodImage(1), 1), PresentFile(CorruptImage, 1), AbsentFile}}
  /\ IdleMedia
  /\ now = 1
  /\ cacheDir \in {{}, {[name |-> getCacheFilename(PathJpg, 1),
                         data |-> SharpThumbnail(GoodImage(1))]}}
  /\ ioFaults \in BOOLEAN
  /\ ftpConnections = {}
  /\ clients = <<>>
  /\ procs = <<>>
  /\ call = NoCall
  /\ page = NoPage

BulkNext ==
  \/ procs = <<>> /\ \E files \in BulkLists : BulkRequest(files)
  \/ \E k \in 1..Len(procs) : Step(k)
  \/ \E c \in 1..Len(clients) : CloseClient(c)

SpecBulk == BulkInit /\ [][BulkNext]_vars

StepAny == \E k \in 1..Len(procs) : Step(k)

\* every operation a request awaits is eventually answered: the weak fairness
\* WF_vars(StepAny), with ENABLED <<StepAny>>_vars written as the state
\* predicate it amounts to (a request that has not ended waits at an await,
\* and the answer to that await is a step)
SpecBulkFair == SpecBulk /\ ([]<>(AllDone) \/ []<><<StepAny>>_vars)

\* the positions of the summary lines in the response of a job
Summaries(p) == {n \in 1..Len(p.out) : p.out[n].complete}

BulkSummaryLast ==
  \A k \in 1..Len(procs) :
    procs[k].kind = "bulk" =>
      IF Done(procs[k])
      THEN /\ Summaries(procs[k]) = {Len(procs[k].out)}
           /\ procs[k].out[Len(procs[k].out)].results = procs[k].results
           /\ procs[k].res.status = 200
           /\ procs[k].i = Len(procs[k].files)
           /\ Len(procs[k].outcomes) = Len(procs[k].files)
      ELSE Summaries(procs[k]) = {}

\* C6: whatever the list of records and whatever fails for single records
\* (absent or unreadable source, invalid remote path, failed connection or
\* download, bytes that do not decode, a cache write that fails), the bulk job
\* ends, having gone through every record, and its response carries exactly
\* one summary line, the last one; no summary is written before the end.
C6_BulkCompletes == [](BulkSummaryLast) /\ ((procs # <<>>) ~> AllDone)

C6_Witness ==
  /\ Len(procs) = 1
  /\ Done(procs[1])
  /\ procs[1].outcomes = <<"Invalid FTP path", "download failed", "decode failed">>
  /\ Len(procs[1].out) = 1
  /\ procs[1].out[1].complete
  /\ Len(procs[1].out[1].results.errors) = 3

\* record K of the job is not there to be read: a local file that is absent,
\* or a source whose read, connection or download failed
Unreachable(p, K) ==
  \/ ~isFtpPath(p.files[K].path) /\ ~existsSync(p.files[K].path)
  \/ p.outcomes[K] \in {"read failed", "connect failed", "download failed"}

IsFailure(outcome) == outcome \notin {"generated", "cached", "skipped"}

\* the job asks for the thumbnail of record K: an image that is neither SVG
\* nor GIF
Thumbnailed(file) ==
  /\ file.type = "image"
  /\ ToLowerCase(ExtName(file.path, Seps)) \notin {ExtSvg, ExtGif}

StreamPaths == {FtpBig, FtpJpg, FtpBad, FtpsNoHost}

StreamRanges == {<<>>, RangeHeader(0, 1)}

\* lines 511-522 up to the first await; the Range header is never read
StreamBegin(p, filePath, range, conns, cls) ==
  IF parseFtpPath(filePath).isNull
  THEN Respond([p EXCEPT !.filePath = filePath, !.range = range],
               JsonError(400, "Invalid FTP path"))
  ELSE Acquire([p EXCEPT !.filePath = filePath, !.range = range],
               conns, cls, parseFtpPath(filePath), "downloadTo")

StreamRequest(filePath, range) ==
  /\ Len(procs) < MaxRequests
  /\ procs' = Append(procs, StreamBegin(NewProc("stream", AllDone), filePath, range,
                                        ftpConnections, clients))
  /\ UNCHANGED <<envVars, mediaVars, now, cacheDir, ioFaults, ftpConnections, clients>>

\* the bytes downloadTo has still to write into the stream
StreamRemaining(p) == Len(RemoteContent(p.ftpConfig.path)) - p.fetched

\* the stream is full: write() has returned false and the transfer is paused
\* until somebody reads, which line 528 does only after the await of line 525
StreamStalled(p) ==
  p.pc = "downloadTo" /\ Len(p.stream) = StreamCapacity /\ StreamRemaining(p) > 0

\* line 525, one chunk: the transfer writes the next byte into the stream
\* while it has room, or fails (the session is closed, the server refuses)
DownloadChunk(k) ==
  /\ At(k, "downloadTo")
  /\ StreamRemaining(procs[k]) > 0
  /\ Len(procs[k].stream) < StreamCapacity
  /\ \E ok \in BOOLEAN :
       SetProc(k, IF ok /\ ~clients[procs[k].client].closed
                  THEN [procs[k] EXCEPT
                          !.stream = Append(@, RemoteContent(procs[k].ftpConfig.path)
                                                 [procs[k].fetched + 1]),
                          !.fetched = @ + 1]
                  ELSE OnError(procs[k], "download failed", cacheDir, ftpConnections, clients))
  /\ UNCHANGED <<envVars, mediaVars, now, cacheDir, ioFaults, ftpConnections, clients>>

\* getContentType over the paths a stream request names (line 527), tabulated
StreamContentType ==
  [filePath \in StreamPaths, seps \in {PosixSeps, Win32Seps} |-> getContentType(filePath, seps)]

\* lines 525-528: the last byte is in the stream, downloadTo resolves, the
\* Content-Type is set and the stream is piped to the response
DownloadEnd(k) ==
  /\ At(k, "downloadTo")
  /\ StreamRemaining(procs[k]) = 0
  /\ SetProc(k, [procs[k] EXCEPT !.pc = "pipe",
                   !.res = ThumbOk(StreamContentType[procs[k].filePath, Seps], <<>>)])
  /\ UNCHANGED <<envVars, mediaVars, now, cacheDir, ioFaults, ftpConnections, clients>>

\* line 528, one chunk: the pipe moves the oldest byte to the response
PipeChunk(k) ==
  /\ At(k, "pipe")
  /\ procs[k].stream # <<>>
  /\ SetProc(k, [procs[k] EXCEPT !.stream = Tail(@),
                   !.res.body = Append(@, procs[k].stream[1])])
  /\ UNCHANGED <<envVars, mediaVars, now, cacheDir, ioFaults, ftpConnections, clients>>

\* line 528: the stream is drained and ended, so the pipe ends the response
PipeEnd(k) ==
  /\ At(k, "pipe")
  /\ procs[k].stream = <<>>
  /\ SetProc(k, [procs[k] EXCEPT !.pc = "done"])
  /\ UNCHANGED <<envVars, mediaVars, now, cacheDir, ioFaults, ftpConnections, clients>>

\* the idle timeout of the paused transfer closes the session and rejects
\* downloadTo; the catch of lines 563-567 answers 500 with the message
StreamTimeout(k) ==
  /\ At(k, "downloadTo")
  /\ StreamStalled(procs[k])
  /\ clients' = [clients EXCEPT ![procs[k].client].closed = TRUE]
  /\ SetProc(k, OnError(procs[k], "Timeout (data socket)", cacheDir, ftpConnections, clients'))
  /\ UNCHANGED <<envVars, mediaVars, now, cacheDir, ioFaults, ftpConnections>>

\* the steps the event loop owes a stream request
StreamStep(k) ==
  \/ AccessDone(k)
  \/ DownloadChunk(k)
  \/ DownloadEnd(k)
  \/ PipeChunk(k)
  \/ PipeEnd(k)

StreamInit ==
  /\ platform = "posix"
  /\ localFs = [p \in LocalPaths |-> AbsentFile]
  /\ IdleMedia
  /\ now = 1
  /\ cacheDir = {}
  /\ ioFaults = FALSE
  /\ ftpConnections = {}
  /\ clients = <<>>
  /\ procs = <<>>
  /\ call = NoCall
  /\ page = NoPage

StreamNext ==
  \/ \E filePath \in StreamPaths, range \in StreamRanges : StreamRequest(filePath, range)
  \/ \E k \in 1..Len(procs) : StreamStep(k)
  \/ \E k \in 1..Len(procs) : StreamTimeout(k)
  \/ \E c \in 1..Len(clients) : CloseClient(c)

SpecStream == StreamInit /\ [][StreamNext]_vars

\* every step a stream request waits for is eventually taken; the timeout
\* and the server closing a session are not owed
SpecStreamFair ==
  SpecStream /\ \A k \in 1..MaxRequests : WF_vars(k \in 1..Len(procs) /\ StreamStep(k))

\* a stream request for a well-formed remote reference
Streaming(k) ==
  k \in 1..Len(procs) /\ procs[k].kind = "stream" /\ ~parseFtpPath(procs[k].filePath).isNull

\* the response of request k is complete and carries the whole remote object
StreamedWhole(k) ==
  /\ Streaming(k)
  /\ Done(procs[k])
  /\ procs[k].res.status = 200
  /\ procs[k].res.body = RemoteContent(procs[k].ftpConfig.path)

\* the session or the transfer failed under request k
SessionFailed(k) == Streaming(k) /\ procs[k].error \in {"connect failed", "download failed"}

\* C13: a stream request for a remote reference whose file exists and whose
\* session works eventually delivers the complete object, whatever its size
C13_StreamDelivers ==
  \A k \in 1..MaxRequests : Streaming(k) ~> (StreamedWhole(k) \/ SessionFailed(k))

\* what follows the scheme of a remote identifier
RemoteRest(id) ==
  IF StartsWith(id, FtpsScheme) THEN SubSeq(id, Len(FtpsScheme) + 1, Len(id))
  ELSE SubSeq(id, Len(FtpScheme) + 1, Len(id))

\* a remote identifier that names no host, or a port that is no port number
Malformed(id) == isFtpPath(id) /\ ~UrlRest(FALSE, RemoteRest(id)).valid

\* request k never asked for a connection, and if answered, with status 400
RejectedUnconnected(p) == p.connects = 0 /\ p.client = 0 /\ (Done(p) => p.res.status = 400)

\* C14: every malformed ftp:// or ftps:// identifier parses to the invalid
\* result; scan, stream and thumbnail answer 400 for it and a bulk job records
\* a per-item error, and no connection is asked for
C14_MalformedRejected ==
  /\ \A k \in 1..Len(procs) :
       /\ (procs[k].kind \in {"stream", "thumb"} /\ Malformed(procs[k].filePath))
            => (parseFtpPath(procs[k].filePath).isNull /\ RejectedUnconnected(procs[k]))
       /\ procs[k].kind = "bulk" =>
            \A K \in 1..Len(procs[k].outcomes) :
               Malformed(procs[k].files[K].path)
                 => procs[k].outcomes[K] = "Invalid FTP path"
  /\ (scanRes # NoScan /\ Malformed(scanReq))
       => (scanRes.status = 400 /\ ftpConnections = {} /\ clients = <<>>)

\* the scan was refused with this status: a message and no record list
ScanRefused(status) ==
  /\ scanRes.status = status
  /\ scanRes.error # ""
  /\ scanRes.directory = <<>> /\ scanRes.count = 0 /\ scanRes.files = <<>>

\* a local path with nothing at it, and one with a regular file at it
LocalMissing(d) ==
  d # <<>> /\ ~isFtpPath(d) /\ d # ScanRoot /\ (d \in LocalPaths => ~localFs[d].exists)

LocalFile(d) == d \in LocalPaths /\ localFs[d].exists

\* a well-formed remote root for which no session could be opened
SessionNotOpened(d) == isFtpPath(d) /\ ~parseFtpPath(d).isNull /\ clients = <<>>

\* C15: scan answers 400 when the identifier is missing, 404 when the local
\* path does not exist, 400 when it is not a directory, and 500 with the
\* failure message when the remote session cannot be opened; in each of
\* these cases no record list is returned
C15_ScanErrors ==
  scanRes # NoScan =>
    /\ scanReq = <<>> => ScanRefused(400)
    /\ LocalMissing(scanReq) => ScanRefused(404)
    /\ LocalFile(scanReq) => ScanRefused(400)
    /\ SessionNotOpened(scanReq) => (ScanRefused(500) /\ scanRes.error = "connect failed")

C15_Witness == SessionNotOpened(scanReq) /\ ScanRefused(500)

\* the parts of the Range header of the request, read against the file's size
AskedSpan == ParseRange(mediaReq.range, Len(localFs[mediaReq.filePath].content))

\* the text the Range header gives as its start
AskedStart == SplitOn(ReplaceFirst(mediaReq.range, BytesEq, <<>>), "-")[1]

\* a Range header that names no span of the file: its start is given and is
\* no number, or lies after its end, or at or after the end of the file
BadRange ==
  /\ mediaReq.range # <<>>
  /\ \/ (AskedStart # <<>> /\ AskedSpan.start.nan)
     \/ (~AskedSpan.end.nan /\ AskedSpan.start.v > AskedSpan.end.v)
     \/ (~AskedSpan.start.nan
           /\ AskedSpan.start.v >= Len(localFs[mediaReq.filePath].content))

\* C16: a stream request for an existing local file whose Range header is
\* malformed or unsatisfiable is answered with a 4xx client error, never with
\* a 206 describing a negative, undefined or out-of-file span
C16_BadRangeClientError ==
  (mediaRes # NoResponse /\ existsSync(mediaReq.filePath) /\ BadRange)
    => mediaRes.status \in 400..499

(***************************************************************************)
(* Thumbnail requests while the cache directory refuses reads, deletions   *)
(* and writes (server.js 286-305, 634-651).                                *)
(***************************************************************************)
FaultyInit ==
  /\ platform = "posix"
  /\ localFs = [p \in LocalPaths |->
                  IF p = PathJpg THEN PresentFile(GoodImage(1), 1) ELSE AbsentFile]
  /\ IdleMedia
  /\ now = 1
  /\ cacheDir = {}
  /\ ioFaults = TRUE
  /\ ftpConnections = {}
  /\ clients = <<>>
  /\ procs = <<>>
  /\ call = NoCall
  /\ page = NoPage

FaultyNext ==
  \/ \E filePath \in {PathJpg, FtpJpg} : ThumbRequest(filePath)
  \/ \E k \in 1..Len(procs) : Step(k)
  \/ Touch(PathJpg)
  \/ Tick

SpecFaulty == FaultyInit /\ [][FaultyNext]_vars

\* request k resized an image and its saveThumbnailToCache wrote nothing
SaveFailed(p) == p.kind = "thumb" /\ Done(p) /\ p.resizes > 0 /\ p.cacheWrites = 0

\* C17: when the cache directory cannot be written, or a stale sibling cannot
\* be deleted, during a thumbnail request, the request answers with a 5xx
\* error rather than reporting success
C17_CacheFailureSurfaces ==
  \A k \in 1..Len(procs) : SaveFailed(procs[k]) => procs[k].res.status \in 500..599

(***************************************************************************)
(* The client of a stream or of a bulk job hangs up before the response    *)
(* has ended (server.js 510-568, 669-787).  No handler listens for the     *)
(* close of its request or response, so only the flag changes.             *)
(***************************************************************************)
Disconnect(k) ==
  /\ k \in 1..Len(procs)
  /\ ~Done(procs[k])
  /\ ~procs[k].gone
  /\ SetProc(k, [procs[k] EXCEPT !.gone = TRUE])
  /\ UNCHANGED <<envVars, mediaVars, now, cacheDir, ioFaults, ftpConnections, clients>>

HangupLists == {<<FileRecord(PathJpg, "image", 1), FileRecord(FtpJpg, "image", 1)>>}

HangupNext ==
  \/ \E files \in HangupLists : BulkRequest(files)
  \/ \E filePath \in {FtpJpg, FtpBig} : StreamRequest(filePath, <<>>)
  \/ \E k \in 1..Len(procs) : Step(k)
  \/ \E k \in 1..Len(procs) : StreamStep(k)
  \/ \E k \in 1..Len(procs) : StreamTimeout(k)
  \/ \E k \in 1..Len(procs) : Disconnect(k)

SpecHangup == FaultyInit /\ [][HangupNext]_vars

\* request k starts nothing in this step: no source read, no download, no
\* connection, no further chunk of a running download
StartsNothing(k) ==
  /\ procs'[k].srcReads = procs[k].srcReads
  /\ procs'[k].connects = procs[k].connects
  /\ procs'[k].fetched = procs[k].fetched

\* C18: once the client of a stream or of a bulk job has disconnected, the
\* request starts no further source read, download or chunk
C18_StopsAfterDisconnect ==
  [][\A k \in 1..Len(procs) : procs[k].gone => StartsNothing(k)]_vars

\* the sessions stored under a key so far, in the order they were stored
StoredUnder(key) == {c \in 1..Len(clients) : clients[c].key = key}

\* the session stored last under a key
StoredLast(key) == CHOOSE c \in StoredUnder(key) : \A d \in StoredUnder(key) : d <= c

\* the table holds one entry per key with a stored session: the last stored
TableKeepsLast ==
  /\ \A e \in ftpConnections : e.client = StoredLast(e.key)
  /\ \A c \in 1..Len(clients) :
       Cardinality({e \in ftpConnections : e.key = clients[c].key}) = 1

\* getFtpConnection returns to caller k in this step
Returns(k) ==
  /\ k \in 1..Len(procs')
  /\ Done(procs'[k]) /\ procs'[k].error = ""
  /\ k \in 1..Len(procs) => ~Done(procs[k])

\* C19: after any interleaving of concurrent acquire calls for one (host,
\* port, user) key, the table maps the key to exactly one session, the one
\* stored last, sessions stored earlier are not referenced, and every caller
\* received an open session
C19_LastStoredWins ==
  /\ []TableKeepsLast
  /\ [][\A k \in 1..Len(procs') :
          Returns(k) => (procs'[k].client \in 1..Len(clients')
                         /\ ~clients'[procs'[k].client].closed)]_vars

\* two concurrent calls for one key both connected: two sessions are stored
\* and open, both callers have theirs
C19_Witness ==
  /\ Len(procs) >= 2 /\ Len(clients) >= 2
  /\ ~procs[2].solo
  /\ Done(procs[1]) /\ Done(procs[2])
  /\ procs[1].client # procs[2].client
  /\ procs[1].client # 0 /\ procs[2].client # 0
  /\ clients[1].key = clients[2].key
  /\ ~clients[1].closed /\ ~clients[2].closed

\* the access call of caller k returns successfully in this step
AccessReturns(k) ==
  /\ At(k, "ftpAccess")
  /\ procs'[k].pc # "ftpAccess"
  /\ procs'[k].error = ""
  /\ procs'[k].client \in 1..Len(clients')

\* the table changes only by the insertion of the session of a caller whose
\* access call has just returned, and that session is open
InsertedOnReturn ==
  ftpConnections' # ftpConnections =>
    \E k \in 1..Len(procs) :
      /\ AccessReturns(k)
      /\ ftpConnections' \ ftpConnections =
           {[key |-> PoolKey(procs[k].ftpConfig), client |-> procs'[k].client]}
      /\ ~clients'[procs'[k].client].closed

\* every session in the table is a stored one, filed under its own key, and
\* no caller that is still connecting, or whose connect failed, has one
TableSessionsConnected ==
  /\ \A e \in ftpConnections :
       e.client \in 1..Len(clients) /\ clients[e.client].key = e.key
  /\ \A k \in 1..Len(procs) :
       (procs[k].pc = "ftpAccess" \/ procs[k].error = "connect failed")
         => (procs[k].client = 0
             /\ \A e \in ftpConnections :
                  e.key = PoolKey(procs[k].ftpConfig)
                    => \E j \in 1..Len(procs) : j # k /\ procs[j].client = e.client)

\* C20: every session in the pool table has completed its connect: a session
\* is inserted only after its access call returned, so the table never holds
\* one that is still connecting or whose connect failed
C20_OnlyConnectedStored ==
  /\ []TableSessionsConnected
  /\ [][InsertedOnReturn]_vars

\* a session is in the table while another caller for the same key is still
\* connecting and a third one's connect has failed
C20_Witness ==
  /\ ftpConnections # {}
  /\ \E k \in 1..Len(procs), j \in 1..Len(procs) :
       /\ procs[k].pc = "ftpAccess"
       /\ procs[j].error = "connect failed"
       /\ \E e \in ftpConnections : e.key = PoolKey(procs[k].ftpConfig)
                                    /\ e.key = PoolKey(procs[j].ftpConfig)

\* the access call of caller k rejects in this step
AccessFails(k) ==
  /\ At(k, "ftpAccess")
  /\ procs'[k].error = "connect failed"

\* a caller asks for at most one connection, and one whose connect failed
\* has ended with that error, after one attempt and without a session
OneAttempt ==
  \A k \in 1..Len(procs) :
    procs[k].kind = "acquire" =>
      /\ procs[k].connects <= 1
      /\ procs[k].error = "connect failed"
           => (Done(procs[k]) /\ procs[k].connects = 1 /\ procs[k].client = 0)

\* C21: when connect/authenticate fails, getFtpConnection raises the error to
\* its caller after exactly one connection attempt and stores no session
C21_FailureRaisedOnce ==
  /\ []OneAttempt
  /\ [][\A k \in 1..Len(procs) :
          AccessFails(k) => (Done(procs'[k]) /\ ftpConnections' = ftpConnections
                             /\ clients' = clients)]_vars

C21_Witness ==
  \E k \in 1..Len(procs) :
    /\ procs[k].kind = "acquire" /\ Done(procs[k])
    /\ procs[k].error = "connect failed"
    /\ \A e \in ftpConnections : e.key # PoolKey(procs[k].ftpConfig)

\* C22: once a getFtpConnection call has seen that the cached session of its
\* key is closed, the table no longer holds that session when the call has
\* finished, whether the new connect succeeded or failed
C22_DeadSessionEvicted ==
  \A k \in 1..Len(procs) :
    (procs[k].kind = "acquire" /\ Done(procs[k]) /\ procs[k].stale # 0)
      => \A e \in ftpConnections : e.client # procs[k].stale

\* requests k and j are thumbnail operations on one (identifier, modifiedAt)
\* pair that both missed the cache and both encoded a thumbnail
Twins(k, j) ==
  /\ k # j
  /\ procs[k].kind = "thumb" /\ procs[j].kind = "thumb"
  /\ procs[k].filePath = procs[j].filePath
  /\ procs[k].modifiedTime = procs[j].modifiedTime
  /\ procs[k].thumbnail # <<>> /\ procs[j].thumbnail # <<>>

\* no request works on the identifier of k under another modification time
NoOtherPair(k) ==
  \A i \in 1..Len(procs) :
    procs[i].filePath = procs[k].filePath => procs[i].modifiedTime = procs[k].modifiedTime

\* both twins have answered with their thumbnail and the pair has one entry
TwinsEndWell ==
  \A k \in 1..Len(procs), j \in 1..Len(procs) :
    (Twins(k, j) /\ Done(procs[k]) /\ Done(procs[j]))
      => /\ procs[k].res.status = 200 /\ procs[k].res.body = procs[k].thumbnail
         /\ NoOtherPair(k) =>
              Cardinality({f \in cacheDir : f.name = procs[k].cacheFilename}) = 1

\* a step of a twin leaves the entry of the pair in the cache directory
TwinKeepsEntry ==
  \A k \in 1..Len(procs), j \in 1..Len(procs) :
    (Twins(k, j) /\ procs'[k] # procs[k] /\ CacheExists(cacheDir, procs[k].cacheFilename))
      => CacheExists(cacheDir', procs[k].cacheFilename)

\* C23: for any interleaving of two concurrent thumbnail operations on one
\* not-yet-cached (identifier, modifiedAt) pair, both answer with a thumbnail,
\* the cache ends with exactly one entry for the pair, and neither's clean-up
\* deletes the entry the other has written
C23_TwinWritesIdempotent ==
  /\ []TwinsEndWell
  /\ [][TwinKeepsEntry]_vars

\* both twins ran concurrently, both wrote, and one entry is there
C23_Witness ==
  /\ Len(procs) = 2
  /\ Twins(1, 2)
  /\ ~procs[2].solo
  /\ Done(procs[1]) /\ Done(procs[2])
  /\ procs[1].cacheWrites = 1 /\ procs[2].cacheWrites = 1
  /\ CacheNames(cacheDir) = {procs[1].cacheFilename}

\* the cache entry f belongs to the identifier: its name starts with the
\* identifier's hash
BelongsTo(f, filePath) == StartsWith(f.name, Hash(filePath) \o <<"_">>)

\* the entries this step deletes, overwrites, alters or creates
Touched == (cacheDir \ cacheDir') \cup (cacheDir' \ cacheDir)

\* C24: a cache write for identifier A never deletes, overwrites or alters a
\* cache entry of another identifier B, under any interleaving of writers:
\* every entry a step touches belongs to the identifier of the request that
\* took the step
C24_OtherEntriesUntouched ==
  [][\A f \in Touched :
       \E k \in 1..Len(procs) : procs'[k] # procs[k] /\ BelongsTo(f, procs[k].filePath)]_vars

\* entries of two identifiers are in the cache, written by concurrent requests
C24_Witness ==
  /\ HashEntries(PathJpg) # {} /\ HashEntries(FtpJpg) # {}
  /\ Len(procs) = 2 /\ ~procs[2].solo
  /\ procs[1].cacheWrites = 1 /\ procs[2].cacheWrites = 1

\* request k asks the cache in this step: it arrives and looks its entry up
\* (lines 590-592), or the read of the entry it found ends (lines 273-280)
LooksUp(k) ==
  \/ k = Len(procs) + 1 /\ Len(procs') = k /\ procs'[k].cacheReads = 1
  \/ At(k, "cacheRead") /\ procs'[k] # procs[k]

\* the clean-up of a save for the identifier of entry f unlinks in this step
CleansUp(f) ==
  \E k \in 1..Len(procs) :
    At(k, "saveUnlink") /\ procs'[k] # procs[k] /\ BelongsTo(f, procs[k].filePath)

\* C25: a cache lookup changes nothing on disk; an entry made stale by a new
\* modification time stays in the cache directory until the clean-up of a
\* cache write for the same identifier removes it
C25_LookupLeavesDisk ==
  [][/\ (\E k \in 1..Len(procs') : LooksUp(k)) => cacheDir' = cacheDir
     /\ \A f \in cacheDir :
          f.name \notin CacheNames(cacheDir') => CleansUp(f)]_vars

\* a lookup has missed because the file was rewritten, and the stale entry
\* is still there
C25_Witness ==
  \E k \in 1..Len(procs) :
    /\ procs[k].kind = "thumb" /\ procs[k].filePath = PathJpg
    /\ procs[k].modifiedTime = 2 /\ procs[k].cacheReads = 1
    /\ procs[k].pc = "readSrc"
    /\ CacheNames(cacheDir) = {getCacheFilename(PathJpg, 1)}

\* the progress lines written so far, without the summary
ProgressLines(p) == SelectSeq(p.out, LAMBDA e : ~e.complete)

\* the records processed so far that were a cache hit or a generation
Reported(p) ==
  SelectSeq([K \in 1..Len(p.outcomes) |-> K],
            LAMBDA K : p.outcomes[K] \in {"cached", "generated"})

\* the progress line owed to record K
LineOf(p, K) ==
  [complete |-> FALSE, progress |-> Progress(K - 1, Len(p.files)), current |-> K,
   total |-> Len(p.files), status |-> p.outcomes[K], file |-> p.files[K].name,
   results |-> EmptyResults]

\* how many of the processed records ended with one of these outcomes
CountOutcomes(p, which) == Cardinality({K \in 1..Len(p.outcomes) : p.outcomes[K] \in which})

\* at every moment the progress lines are those of the records processed so
\* far that were a hit or a generation, one each, in input order
LinesFollowRecords(p) ==
  /\ Len(p.outcomes) = p.i
  /\ Len(ProgressLines(p)) = Len(Reported(p))
  /\ \A n \in 1..Len(Reported(p)) : ProgressLines(p)[n] = LineOf(p, Reported(p)[n])
  /\ \A n \in 1..(Len(ProgressLines(p)) - 1) :
       ProgressLines(p)[n].current < ProgressLines(p)[n + 1].current

\* a finished job resized only what it reports as generated or as failing to
\* decode, and wrote the cache only for what it reports as generated
HitsCostNothing(p) ==
  Done(p) =>
    /\ p.resizes = CountOutcomes(p, {"generated", "decode failed"})
    /\ p.cacheWrites <= CountOutcomes(p, {"generated"})
    /\ p.cacheReads >= CountOutcomes(p, {"cached"})

\* C26: the bulk job processes records in input order and writes exactly one
\* progress line per record that is a cache hit (cached, nothing regenerated
\* or rewritten) or a generation (generated, after the save), none for skipped
\* records, in input order with strictly increasing current, each written
\* before the next record is processed
C26_ProgressLines ==
  \A k \in 1..Len(procs) :
    procs[k].kind = "bulk" => (LinesFollowRecords(procs[k]) /\ HitsCostNothing(procs[k]))

\* a finished job of three records: a hit, a skipped one, a generation
C26_Witness ==
  /\ Len(procs) = 1 /\ Done(procs[1])
  /\ procs[1].outcomes = <<"cached", "skipped", "generated">>
  /\ Len(ProgressLines(procs[1])) = 2
  /\ ProgressLines(procs[1])[1].current = 1 /\ ProgressLines(procs[1])[2].current = 3

(***************************************************************************)
(* parseFtpPath and isFtpPath called on identifiers written from their     *)
(* parts (server.js 351-370).                                              *)
(***************************************************************************)
UrlParts ==
  [secure : BOOLEAN,
   user : {<<>>, <<"u">>, <<"a", " ", "b">>},
   password : {<<>>, <<"p">>},
   host : {<<"h">>, <<"H", ".", "x">>},
   port : {<<>>, <<"2", "1">>, <<"9", "9", "0">>, <<"0">>},
   path : {<<>>, <<"/">>, <<"/", "a", "/", "b", ".", "j", "p", "g">>,
           <<"/", "a", " ", "b", ".", "j", "p", "g">>}]

\* the identifier that names these parts
FormatUrl(c) ==
  (IF c.secure THEN FtpsScheme ELSE FtpScheme)
    \o (IF c.user = <<>> /\ c.password = <<>> THEN <<>>
        ELSE c.user \o (IF c.password = <<>> THEN <<>> ELSE <<":">> \o c.password) \o <<"@">>)
    \o c.host
    \o (IF c.port = <<>> THEN <<>> ELSE <<":">> \o c.port)
    \o c.path

\* strings that do not start with ftp:// or ftps://
LocalStrings ==
  {PathJpg, NoSuchDir, <<"C", ":", "/", "m">>,
   <<"F", "T", "P", ":", "/", "/", "h", "/", "x">>, <<"f", "t", "p", ":", "/", "h">>}

\* the handlers' first two calls on an identifier: isFtpPath, and parseFtpPath
\* when it says yes
ParseCall(parts, id) ==
  /\ call = NoCall
  /\ call' = [fn |-> "parse", arg |-> [parts |-> parts, id |-> id],
              out |-> [remote |-> isFtpPath(id),
                       config |-> IF isFtpPath(id) THEN parseFtpPath(id) ELSE NullConfig]]
  /\ UNCHANGED <<platform, localFs, scanVars, page, mediaVars, cacheVars>>

ParseInit == StreamInit

ParseNext ==
  \/ \E parts \in UrlParts : ParseCall(parts, FormatUrl(parts))
  \/ \E id \in LocalStrings : ParseCall(<<>>, id)

SpecParse == ParseInit /\ [][ParseNext]_vars

\* the configuration the parts of a remote identifier stand for
ConfigOfParts(c) ==
  [isNull |-> FALSE,
   host |-> c.host,
   port |-> IF c.port = <<>> THEN 21 ELSE DigitsValue(c.port),
   user |-> IF c.user = <<>> THEN Anonymous ELSE c.user,
   password |-> c.password,
   path |-> IF c.path = <<>> THEN <<"/">> ELSE c.path,
   secure |-> c.secure]

\* equal but for the case of the host, which names the same host
SameConfig(a, b) ==
  [a EXCEPT !.host = ToLowerCase(@)] = [b EXCEPT !.host = ToLowerCase(@)]

\* C27: for every well-formed identifier starting with ftp:// or ftps://,
\* parseFtpPath yields the host, the port or 21, the user or anonymous, the
\* password or the empty string, the path or /, and secure exactly for ftps;
\* every other string is treated as a local reference
C27_ParseFields ==
  call.fn = "parse" =>
    IF call.arg.parts = <<>> THEN ~call.out.remote
    ELSE call.out.remote /\ SameConfig(call.out.config, ConfigOfParts(call.arg.parts))

(***************************************************************************)
(* isMediaFile and getMediaType called on file names, beside the scans     *)
(* that use them (server.js 315-319, 373-387).                             *)
(***************************************************************************)
UpperChar(c) ==
  IF \E i \in 1..26 : Lower[i] = c THEN Upper[CHOOSE i \in 1..26 : Lower[i] = c] ELSE c

ToUpperCase(s) == [i \in 1..Len(s) |-> UpperChar(s[i])]

\* every extension of the table, and some that are in none of its lists
ListedExts ==
  UNION {{MEDIA_EXTENSIONS[k].extensions[n] : n \in 1..Len(MEDIA_EXTENSIONS[k].extensions)} :
           k \in 1..Len(MEDIA_EXTENSIONS)}

OtherExts == {<<".", "t", "x", "t">>, <<".", "m", "p", "4", "x">>, <<".", "o", "g">>, <<".">>, <<>>}

\* names with each extension, in lower and in upper case; a dot file, a name
\* without a dot, and a listed extension that is not the last one
ClassifyNames ==
  {base \o ext : base \in {<<"a">>, <<"a", ".", "b">>, <<"/", "m", "/", "a", ".", "b">>},
                 ext \in ListedExts \cup {ToUpperCase(e) : e \in ListedExts} \cup OtherExts}
    \cup {<<".", "m", "p", "4">>, <<"m", "p", "4">>, <<"a", ".", "o", "g", "g", ".", "t", "x", "t">>}

ClassifyCall(filename) ==
  /\ call = NoCall
  /\ call' = [fn |-> "classify", arg |-> filename,
              out |-> [media |-> isMediaFile(filename, Seps),
                       type |-> getMediaType(filename, Seps)]]
  /\ UNCHANGED <<platform, localFs, scanVars, page, mediaVars, cacheVars>>

\* a tree with every directory listed in full, the subdirectory first, and no
\* failing entry
ClassifyInit ==
  /\ ScanInit
  /\ NoScanFaults
  /\ Len(dirTree[RootDir]) >= 3 /\ dirTree[RootDir][1].name = NameS
  /\ Len(dirTree[DirS]) = Cardinality(SEntries) /\ dirTree[DirS][1].name = NameC
  /\ dirTree[DirS][2].name = NameT
  /\ Len(dirTree[DirT]) = 1

ClassifyNext ==
  \/ \E filename \in ClassifyNames : ClassifyCall(filename)
  \/ \E directory \in {ScanRoot, FtpRoot} : ScanRequest(directory)

SpecClassify == ClassifyInit /\ [][ClassifyNext]_vars

Kinds == {"video", "image", "audio"}

LowerExt(filename) == ToLowerCase(ExtName(filename, Seps))

\* C28: classification depends only on the lowercased extension; a name is
\* media exactly when its kind is not unknown, so every scan record has kind
\* video, image or audio; and .ogg, listed under two kinds, always yields the
\* same single kind
C28_KindByExtension ==
  /\ call.fn = "classify" =>
       /\ call.out.type \in Kinds \cup {"unknown"}
       /\ call.out.media <=> call.out.type # "unknown"
       /\ \A other \in ClassifyNames :
            LowerExt(other) = LowerExt(call.arg)
              => LET ext == ExtName(other, Seps)
                     k == CHOOSE k \in 1..3 : MEDIA_EXTENSIONS[k].type = call.out.type
                 IN IF call.out.type = "unknown" THEN ext \notin ListedExts \/ ext # LowerExt(other)
                    ELSE Includes(MEDIA_EXTENSIONS[k].extensions, LowerExt(other))
       /\ LowerExt(call.arg) = <<".", "o", "g", "g">> => call.out.type = "video"
  /\ \A n \in 1..Len(scanRes.files) : scanRes.files[n].type \in Kinds

\* a name with the extension of two kinds, in upper case, has been classified
\* after a scan returned records
C28_Witness ==
  /\ call.fn = "classify" /\ call.arg = <<"a", ".", "O", "G", "G">>
  /\ call.out.media /\ call.out.type = "video"
  /\ scanRes.status = 200 /\ Len(scanRes.files) >= 3

(***************************************************************************)
(* The first version of the server (server.js 1-233), which knows local    *)
(* paths only, beside the later one (234-823) on the same requests.        *)
(***************************************************************************)
\* lines 56-63: the record pushed for a file; it has no source field
PreFtpRecord(entry, fullPath, baseDir) ==
  [name |-> entry.name,
   path |-> fullPath,
   relativePath |-> PathRelative(baseDir, fullPath),
   size |-> entry.size,
   modified |-> entry.mtime,
   type |-> getMediaType(entry.name, Seps)]

RECURSIVE PreFtpGetMediaFilesRecursive(_, _, _)
RECURSIVE PreFtpEntries(_, _, _, _, _)
\* lines 47-65: the loop over the listing from entry i on
PreFtpEntries(dirPath, dirId, baseDir, i, files) ==
  IF i > Len(dirTree[dirId]) THEN files
  ELSE IF dirTree[dirId][i].kind = "dir"
  THEN PreFtpEntries(dirPath, dirId, baseDir, i + 1,
         files \o PreFtpGetMediaFilesRecursive(PathJoin(dirPath, dirTree[dirId][i].name),
                                               Append(dirId, dirTree[dirId][i].name), baseDir))
  ELSE IF dirTree[dirId][i].kind = "file" /\ isMediaFile(dirTree[dirId][i].name, Seps)
  THEN IF dirTree[dirId][i].name \in scanFaults.stat
       THEN files
       ELSE PreFtpEntries(dirPath, dirId, baseDir, i + 1,
              Append(files, PreFtpRecord(dirTree[dirId][i],
                                         PathJoin(dirPath, dirTree[dirId][i].name), baseDir)))
  ELSE PreFtpEntries(dirPath, dirId, baseDir, i + 1, files)

\* lines 41-71
PreFtpGetMediaFilesRecursive(dirPath, dirId, baseDir) ==
  IF dirId \in scanFaults.readdir THEN <<>>
  ELSE PreFtpEntries(dirPath, dirId, baseDir, 1, <<>>)

\* lines 74-102: POST /api/scan-directory of the first version
PreFtpScanResponse(directory) ==
  IF directory = <<>> THEN ScanResponse(400, "Directory path is required", <<>>, <<>>)
  ELSE IF ~ScanExists(directory) THEN ScanResponse(404, "Directory not found", <<>>, <<>>)
  ELSE IF ~IsDirectory(directory) THEN ScanResponse(400, "Path is not a directory", <<>>, <<>>)
  ELSE ScanResponse(200, "", directory,
                    PreFtpGetMediaFilesRecursive(directory, RootDir, directory))

\* what express answers when a handler throws and nothing catches it: status
\* 500 and an HTML page that shows the error
ExpressErrorPage(error) == Response(500, <<>>, "", <<>>, "text/html", <<>>, error)

\* lines 105-141: GET /api/media/* of the first version; the handler has no
\* try, so what createReadStream throws reaches express
PreFtpMediaResponse(filePath, range) ==
  IF ~existsSync(filePath) THEN JsonError(404, "File not found")
  ELSE
    LET fileSize == Len(localFs[filePath].content)
    IN IF range # <<>>
       THEN LET r == ParseRange(range, fileSize)
                chunksize == NumAdd(NumSub(r.end, r.start), Num(1))
                file == createReadStream(localFs[filePath].content, r.start, r.end)
            IN IF file.throws THEN ExpressErrorPage("ERR_OUT_OF_RANGE")
               ELSE Response(206,
                      <<"b", "y", "t", "e", "s", " ">> \o NumToString(r.start) \o <<"-">>
                        \o NumToString(r.end) \o <<"/">> \o NatToString(fileSize),
                      "bytes", NumToString(chunksize),
                      getContentType(filePath, Seps), file.data, "")
       ELSE Response(200, <<>>, "", NatToString(fileSize),
                     getContentType(filePath, Seps),
                     localFs[filePath].content, "")

\* the first version answers a media request
PreFtpMedia(filePath, range) ==
  /\ call = NoCall
  /\ call' = [fn |-> "media", arg |-> [filePath |-> filePath, range |-> range],
              out |-> PreFtpMediaResponse(filePath, range)]
  /\ UNCHANGED <<platform, localFs, scanVars, page, mediaVars, cacheVars>>

\* the first version answers a scan
PreFtpScan(directory) ==
  /\ call = NoCall
  /\ call' = [fn |-> "scan", arg |-> directory, out |-> PreFtpScanResponse(directory)]
  /\ UNCHANGED <<platform, localFs, scanVars, page, mediaVars, cacheVars>>

\* the directories that are no remote identifiers
LocalDirectories == {<<>>, ScanRoot, NoSuchDir, PathVideo}

\* a tree with the subdirectory first, a file of several sizes or none, and
\* listings or files that may fail
PreFtpInit ==
  /\ platform \in {"posix", "win32"}
  /\ localFs \in
       {[p \in LocalPaths |-> IF p = PathVideo THEN f ELSE AbsentFile] :
          f \in {AbsentFile} \cup {PresentFile(FileContent(n), 1) : n \in {0, 2, MaxFileSize}}}
  /\ mediaReq = [filePath |-> <<>>, range |-> <<>>]
  /\ mediaRes = NoResponse
  /\ dirTree \in
       {[d \in DirIds |->
           CASE d = RootDir -> root [] d = DirS -> s [] OTHER -> t] :
          root \in {l \in Listings(RootEntries) : Len(l) >= 3 /\ l[1].name = NameB
                                                   /\ l[2].name = NameS},
          s \in {l \in Listings(SEntries) : Len(l) = Cardinality(SEntries)
                                              /\ l[1].name = NameC /\ l[2].name = NameT},
          t \in {l \in Listings(TEntries) : Len(l) = 1}}
  /\ scanFaults \in [readdir : {{}, {DirT}}, stat : {{}, {NameA}}]
  /\ scanReq = <<>>
  /\ scanRes = NoScan
  /\ now = 1
  /\ cacheDir = {}
  /\ ioFaults = FALSE
  /\ ftpConnections = {}
  /\ clients = <<>>
  /\ procs = <<>>
  /\ call = NoCall
  /\ page = NoPage

\* each request goes to the first version and then to the later one
PreFtpNext ==
  \/ \E filePath \in LocalPaths, range \in RangeHeaders : PreFtpMedia(filePath, range)
  \/ \E directory \in LocalDirectories : PreFtpScan(directory)
  \/ call.fn = "media" /\ MediaGet(call.arg.filePath, call.arg.range)
  \/ call.fn = "scan" /\ ScanRequest(call.arg)

SpecPreFtp == PreFtpInit /\ [][PreFtpNext]_vars

BothAnsweredMedia == call.fn = "media" /\ mediaRes # NoResponse /\ mediaReq = call.arg

BothAnsweredScan == call.fn = "scan" /\ scanRes # NoScan /\ scanReq = call.arg

RecordFields(record) ==
  [name |-> record.name, path |-> record.path, relativePath |-> record.relativePath,
   size |-> record.size, modified |-> record.modified, type |-> record.type]

SameScan(later, first) ==
  /\ later.status = first.status /\ later.error = first.error
  /\ later.directory = first.directory /\ later.count = first.count
  /\ Len(later.files) = Len(first.files)
  /\ \A n \in 1..Len(first.files) : RecordFields(later.files[n]) = first.files[n]

\* C29: for every local path and optional Range header, the scan and the
\* media stream of the later version return the same status, headers, body
\* and record fields (name, path, relativePath, size, modified, type) as
\* those of the first version
C29_PreFtpSubset ==
  /\ BothAnsweredMedia => mediaRes = call.out
  /\ BothAnsweredScan => SameScan(scanRes, call.out)

(***************************************************************************)
(* The page's lists of records: the scan result, and the list the grid     *)
(* shows after filtering and search (part_000 145-153, 456-457, 927-955).  *)
(* An array is [ref, items]: ref tells one array object from another.      *)
(***************************************************************************)
MaxPageOps == 3
MaxListed == 3

PageRecord(name, relativePath) ==
  [name |-> name, path |-> <<"/", "m", "/">> \o relativePath,
   relativePath |-> relativePath, type |-> getMediaType(name, PosixSeps)]

PageRecords ==
  {PageRecord(NameB, NameB),
   PageRecord(NameC, <<"s", "/">> \o NameC),
   PageRecord(NameD, <<"s", "/", "t", "/">> \o NameD),
   PageRecord(<<"e", ".", "m", "p", "3">>, <<"S", "/", "e", ".", "m", "p", "3">>)}

\* the scan results: up to MaxListed different records in any order
PageLists ==
  {l \in UNION {[1..n -> PageRecords] : n \in 0..MaxListed} :
     \A i, j \in 1..Len(l) : l[i] = l[j] => i = j}

FilterButtons == {"all", "video", "image", "audio"}

SearchTerms == {<<>>, <<"s", "/">>, <<"M", "P">>, <<"b">>, <<"z", "z">>}

\* String.prototype.includes
StringIncludes(s, sub) == sub = <<>> \/ IndexOf(s, sub) > 0

\* Array.prototype.filter: a new array with the items that pass, in order
ArrayFilter(array, Test(_), ref) == [ref |-> ref, items |-> SelectSeq(array.items, Test)]

\* a variant that narrows the scan result itself to what the grid shows
applyFiltersNarrowing(pg) ==
  LET typed == IF pg.currentFilter # "all"
               THEN ArrayFilter(pg.mediaFiles, LAMBDA f : f.type = pg.currentFilter,
                                pg.refs + 1)
               ELSE pg.mediaFiles
      searchTerm == ToLowerCase(pg.searchInput)
      found == IF searchTerm # <<>>
               THEN ArrayFilter(typed,
                      LAMBDA f : \/ StringIncludes(ToLowerCase(f.name), searchTerm)
                                 \/ StringIncludes(ToLowerCase(f.relativePath), searchTerm),
                      typed.ref + 1)
               ELSE typed
  IN [pg EXCEPT !.mediaFiles = found, !.filteredFiles = found,
                !.refs = IF found.ref > pg.refs THEN found.ref ELSE pg.refs]

\* lines 927-947: applyFilters, on the page pg
applyFilters(pg) ==
  LET copy == [ref |-> pg.refs + 1, items |-> pg.mediaFiles.items]
      typed == IF pg.currentFilter # "all"
               THEN ArrayFilter(copy, LAMBDA f : f.type = pg.currentFilter, copy.ref + 1)
               ELSE copy
      searchTerm == ToLowerCase(pg.searchInput)
      found == IF searchTerm # <<>>
               THEN ArrayFilter(typed,
                      LAMBDA f : \/ StringIncludes(ToLowerCase(f.name), searchTerm)
                                 \/ StringIncludes(ToLowerCase(f.relativePath), searchTerm),
                      typed.ref + 1)
               ELSE typed
  IN [pg EXCEPT !.filteredFiles = found, !.refs = found.ref]

\* lines 146-153: a click on a type button
FilterClick(filter) ==
  /\ page.ops < MaxPageOps
  /\ page' = [applyFilters([page EXCEPT !.currentFilter = filter])
                EXCEPT !.ops = @ + 1, !.last = "filter"]
  /\ UNCHANGED <<platform, localFs, scanVars, call, mediaVars, cacheVars>>

\* lines 114, 953-955: the user changes the text of the search box
handleSearch(term) ==
  /\ page.ops < MaxPageOps
  /\ page' = [applyFilters([page EXCEPT !.searchInput = term])
                EXCEPT !.ops = @ + 1, !.last = "search"]
  /\ UNCHANGED <<platform, localFs, scanVars, call, mediaVars, cacheVars>>

\* lines 456-457: a scan has answered with files; the buttons and the search
\* box stay as they are
PageScan(files) ==
  /\ page.ops < MaxPageOps
  /\ page' = [page EXCEPT !.mediaFiles = [ref |-> page.refs + 1, items |-> files],
                          !.filteredFiles = [ref |-> page.refs + 2, items |-> files],
                          !.refs = @ + 2, !.ops = @ + 1, !.last = "scan"]
  /\ UNCHANGED <<platform, localFs, scanVars, call, mediaVars, cacheVars>>

PageInit == StreamInit

PageNext ==
  \/ \E files \in PageLists : PageScan(files)
  \/ \E filter \in FilterButtons : FilterClick(filter)
  \/ \E term \in SearchTerms : handleSearch(term)

SpecPage == PageInit /\ [][PageNext]_vars

\* the record passes the type button and the search box of page pg
PassesFilters(pg, f) ==
  /\ pg.currentFilter = "all" \/ f.type = pg.currentFilter
  /\ \/ pg.searchInput = <<>>
     \/ StringIncludes(ToLowerCase(f.name), ToLowerCase(pg.searchInput))
     \/ StringIncludes(ToLowerCase(f.relativePath), ToLowerCase(pg.searchInput))

\* the places of the scan result whose record passes
PassingPlaces(pg) ==
  {i \in 1..Len(pg.mediaFiles.items) : PassesFilters(pg, pg.mediaFiles.items[i])}

\* the passing records in the order of the scan result
PassingInOrder(pg) ==
  [k \in 1..Cardinality(PassingPlaces(pg)) |->
     pg.mediaFiles.items[CHOOSE i \in PassingPlaces(pg) :
                           Cardinality({j \in PassingPlaces(pg) : j <= i}) = k]]

Refined == page'.ops # page.ops /\ page'.last \in {"filter", "search"}

\* C30: filtering and search never mutate the scan result: applyFilters
\* leaves mediaFiles unchanged, and after any sequence of type-filter and
\* search operations filteredFiles is a new list, in the order of mediaFiles,
\* holding exactly the records that match the current type filter and the
\* current search term
C30_FiltersDeriveNewList ==
  [][Refined =>
       /\ page'.mediaFiles = page.mediaFiles
       /\ page'.filteredFiles.ref > page.refs
       /\ page'.filteredFiles.ref # page'.mediaFiles.ref
       /\ page'.filteredFiles.items = PassingInOrder(page')]_vars

\* after a scan of three records, a type button and a search term together
\* have left some records out and kept others
C30_Witness ==
  /\ page.last = "search" /\ page.ops = 3
  /\ page.currentFilter = "video" /\ page.searchInput = <<"s", "/">>
  /\ Len(page.mediaFiles.items) = 3
  /\ Len(page.filteredFiles.items) = 1
  /\ page.mediaFiles.items[1].type = "image"

(***************************************************************************)
(* The playlists of the player and of the image viewer (part_000 349-393,  *)
(* 697-723, 793-811, 821-831).                                             *)
(***************************************************************************)
\* the % of the script: the remainder has the sign of the dividend
JsRem(a, b) == IF a >= 0 THEN a % b ELSE 0 - ((0 - a) % b)

\* Array.prototype.findIndex on the path: the first place, counted from 0, or -1
FindIndexByPath(items, path) ==
  LET hits == {i \in 1..Len(items) : items[i].path = path}
  IN IF hits = {} THEN -1 ELSE (CHOOSE i \in hits : \A j \in hits : i <= j) - 1

IsPlayable(f) == f.type = "video" \/ f.type = "audio"

IsImage(f) == f.type = "image"

\* lines 821-831: playVideo builds the playlist from the filtered list and
\* looks the file up in it
playVideo(pg, file) ==
  LET list == SelectSeq(pg.filteredFiles.items, IsPlayable)
      found == FindIndexByPath(list, file.path)
  IN [pg EXCEPT !.videoFiles = list,
                !.currentVideoIndex = IF found = -1 THEN 0 ELSE found]

\* lines 712-723: openImageLightbox
openImageLightbox(pg, file) ==
  LET list == SelectSeq(pg.filteredFiles.items, IsImage)
      found == FindIndexByPath(list, file.path)
  IN [pg EXCEPT !.imageFiles = list,
                !.currentImageIndex = IF found = -1 THEN 0 ELSE found]

\* lines 697-703: openMedia
openMedia(pg, file) ==
  IF IsPlayable(file) THEN playVideo(pg, file)
  ELSE IF IsImage(file) THEN openImageLightbox(pg, file)
  ELSE pg

\* a step to the next video that does not come back to the first one
playNextVideoNoWrap(pg) ==
  IF Len(pg.videoFiles) = 0 THEN pg
  ELSE IF pg.currentVideoIndex + 1 < Len(pg.videoFiles)
  THEN playVideo([pg EXCEPT !.currentVideoIndex = @ + 1],
                 pg.videoFiles[pg.currentVideoIndex + 2])
  ELSE [pg EXCEPT !.currentVideoIndex = @ + 1]

\* lines 366-376: playNextVideo
playNextVideo(pg) ==
  IF Len(pg.videoFiles) = 0 THEN pg
  ELSE playVideo([pg EXCEPT !.currentVideoIndex = JsRem(@ + 1, Len(pg.videoFiles))],
                 pg.videoFiles[JsRem(pg.currentVideoIndex + 1, Len(pg.videoFiles)) + 1])

\* lines 383-393: playPreviousVideo
playPreviousVideo(pg) ==
  IF Len(pg.videoFiles) = 0 THEN pg
  ELSE playVideo(
         [pg EXCEPT !.currentVideoIndex =
                      JsRem(@ - 1 + Len(pg.videoFiles), Len(pg.videoFiles))],
         pg.videoFiles[JsRem(pg.currentVideoIndex - 1 + Len(pg.videoFiles),
                             Len(pg.videoFiles)) + 1])

\* lines 797-801: showPreviousImage
showPreviousImage(pg) ==
  IF Len(pg.imageFiles) = 0 THEN pg
  ELSE [pg EXCEPT !.currentImageIndex =
                    JsRem(@ - 1 + Len(pg.imageFiles), Len(pg.imageFiles))]

\* lines 807-811: showNextImage
showNextImage(pg) ==
  IF Len(pg.imageFiles) = 0 THEN pg
  ELSE [pg EXCEPT !.currentImageIndex = JsRem(@ + 1, Len(pg.imageFiles))]

PageStep(pg, op) ==
  /\ page' = [pg EXCEPT !.last = op, !.tick = 1 - @]
  /\ UNCHANGED <<platform, localFs, scanVars, call, mediaVars, cacheVars>>

\* line 535: a click on the i-th card of the grid
ClickCard(i) ==
  /\ i \in 1..Len(page.filteredFiles.items)
  /\ PageStep(openMedia(page, page.filteredFiles.items[i]), "open")

\* the buttons and keys of the two viewers, and the end of a video with
\* "autoplay next" checked (lines 349-359)
NextVideoButton == PageStep(playNextVideo(page), "nextVideo")
PreviousVideoButton == PageStep(playPreviousVideo(page), "previousVideo")
NextImageButton == PageStep(showNextImage(page), "nextImage")
PreviousImageButton == PageStep(showPreviousImage(page), "previousImage")

\* the scans that found as many records as a list holds here
FullLists == {l \in PageLists : Len(l) = Cardinality(PageRecords) \/ Len(l) = MaxListed}

PlayerNext ==
  \/ \E files \in FullLists : PageScan(files)
  \/ \E filter \in {"all", "video"} : FilterClick(filter)
  \/ \E term \in {<<>>, <<"s", "/">>} : handleSearch(term)
  \/ \E i \in 1..MaxListed : ClickCard(i)
  \/ NextVideoButton
  \/ PreviousVideoButton
  \/ NextImageButton
  \/ PreviousImageButton

SpecPlayer == PageInit /\ [][PlayerNext]_vars

IndexInRange(index, list) == list # <<>> => index \in 0..(Len(list) - 1)

\* the playlist is the one the filtered list gives now
VideoListCurrent(pg) == pg.videoFiles = SelectSeq(pg.filteredFiles.items, IsPlayable)

Stepped(op) == page'.tick # page.tick /\ page'.last = op

\* where a step forward or backward from index leads in a list of n items
Forward(index, n) == IF index = n - 1 THEN 0 ELSE index + 1
Backward(index, n) == IF index = 0 THEN n - 1 ELSE index - 1

VideoWraps(op, Target(_, _)) ==
  Stepped(op) =>
    IF page.videoFiles = <<>>
    THEN page'.videoFiles = <<>> /\ page'.currentVideoIndex = page.currentVideoIndex
    ELSE VideoListCurrent(page) =>
           /\ page'.videoFiles = page.videoFiles
           /\ page'.currentVideoIndex =
                Target(page.currentVideoIndex, Len(page.videoFiles))

ImageWraps(op, Target(_, _)) ==
  Stepped(op) =>
    /\ page'.imageFiles = page.imageFiles
    /\ IF page.imageFiles = <<>>
       THEN page'.currentImageIndex = page.currentImageIndex
       ELSE page'.currentImageIndex =
              Target(page.currentImageIndex, Len(page.imageFiles))

\* C31: after any sequence of open, next and previous operations on a
\* non-empty video or image playlist the current index stays within
\* 0..length-1; next from the last item goes to the first and previous from
\* the first to the last; with an empty playlist next and previous do nothing
C31_NavigationWraps ==
  [][/\ IndexInRange(page'.currentVideoIndex, page'.videoFiles)
     /\ IndexInRange(page'.currentImageIndex, page'.imageFiles)
     /\ VideoWraps("nextVideo", Forward) /\ VideoWraps("previousVideo", Backward)
     /\ ImageWraps("nextImage", Forward) /\ ImageWraps("previousImage", Backward)]_vars

\* next has just led from the last of several videos to the first
C31_Witness ==
  /\ page.last = "nextVideo" /\ Len(page.videoFiles) >= 2
  /\ page.currentVideoIndex = 0
  /\ VideoListCurrent(page)
  /\ Len(page.filteredFiles.items) = 3

(***************************************************************************)
(* The counters of the bulk job's summary (server.js 676-682, 688-784).    *)
(***************************************************************************)
Counted(results) ==
  results.generated + results.cached + results.skipped + Len(results.errors)

\* the summary lines of a job's response
SummaryLines(p) == SelectSeq(p.out, LAMBDA e : e.complete)

\* the counters of a summary agree, one by one, with what became of the records
CountersMatchOutcomes(p, results) ==
  /\ results.generated = CountOutcomes(p, {"generated"})
  /\ results.cached = CountOutcomes(p, {"cached"})
  /\ results.skipped = CountOutcomes(p, {"skipped"})
  /\ Len(results.errors) =
       Cardinality({K \in 1..Len(p.outcomes) : IsFailure(p.outcomes[K])})

\* C32: when the bulk job emits its summary, the counters partition the
\* input: generated + cached + skipped + number of entries in errors = total
\* = number of input records, every record counted in exactly one outcome
C32_CountersPartition ==
  \A k \in 1..Len(procs) :
    procs[k].kind = "bulk" =>
      \A n \in 1..Len(SummaryLines(procs[k])) :
        /\ Counted(SummaryLines(procs[k])[n].results)
             = SummaryLines(procs[k])[n].results.total
        /\ SummaryLines(procs[k])[n].results.total = Len(procs[k].files)
        /\ Len(procs[k].outcomes) = Len(procs[k].files)
        /\ CountersMatchOutcomes(procs[k], SummaryLines(procs[k])[n].results)

\* a summary over three records that ended in three different ways
C32_Witness ==
  /\ Len(procs) = 1 /\ procs[1].kind = "bulk"
  /\ Len(SummaryLines(procs[1])) = 1
  /\ procs[1].outcomes = <<"generated", "skipped", "Invalid FTP path">>
  /\ SummaryLines(procs[1])[1].results.generated = 1
  /\ SummaryLines(procs[1])[1].results.skipped = 1
  /\ Len(SummaryLines(procs[1])[1].results.errors) = 1

(***************************************************************************)
(* Thumbnails of a remote image: the bulk job stores them under the        *)
(* record's modified time (server.js 706-707, 763), a thumbnail request    *)
(* looks them up and stores them under the time of the request (577-597).  *)
(***************************************************************************)
RemoteThumbInit ==
  /\ platform = "posix"
  /\ localFs = [p \in LocalPaths |-> AbsentFile]
  /\ IdleMedia
  /\ now = 1
  /\ cacheDir = {}
  /\ ioFaults = FALSE
  /\ ftpConnections = {}
  /\ clients = <<>>
  /\ procs = <<>>
  /\ call = NoCall
  /\ page = NoPage

RemoteThumbNext ==
  \/ \E filePath \in {FtpJpg, FtpBad} : ThumbRequest(filePath)
  \/ \E filePath \in {FtpJpg, FtpBad}, m \in 1..MaxTime :
       BulkRequest(<<FileRecord(filePath, "image", m)>>)
  \/ \E k \in 1..Len(procs) : Step(k)
  \/ Tick

SpecRemoteThumb == RemoteThumbInit /\ [][RemoteThumbNext]_vars

\* what a request has asked of the remote server: connections and downloads
RemoteWork(p) == p.connects + p.srcReads

\* in this step a thumbnail request for a remote image arrives while the
\* cache holds a thumbnail of that image
ArrivesAtCachedRemote ==
  /\ Len(procs') = Len(procs) + 1
  /\ procs'[Len(procs')].kind = "thumb"
  /\ isFtpPath(procs'[Len(procs')].filePath)
  /\ HashEntries(procs'[Len(procs')].filePath) # {}

\* C33: if the cache holds a thumbnail for a remote image (written by the
\* bulk job under the record's modified time, or by an earlier thumbnail
\* request), a later thumbnail request for the same unchanged remote file is
\* served from the cache without a new download from the remote server
C33_CachedRemoteNotFetched ==
  [][ArrivesAtCachedRemote =>
       /\ RemoteWork(procs'[Len(procs')]) = 0
       /\ procs'[Len(procs')].pc = "cacheRead"]_vars


(***************************************************************************)
(* Requests that share a pooled session (server.js 322-348, 607-617,       *)
(* 731-742).                                                               *)
(***************************************************************************)
\* request k has a download running on its session
Downloading(k) ==
  /\ procs[k].pc \in {"download", "downloadTo"}
  /\ procs[k].client # 0

\* C34: a pooled session is used by at most one operation at a time: no list
\* or download is started on a session while a list or download issued by
\* another concurrent request on the same session is still in progress
C34_OneOperationPerSession ==
  \A j, k \in 1..Len(procs) :
    (j # k /\ Downloading(j) /\ Downloading(k)) => procs[j].client # procs[k].client

(***************************************************************************)
(* Callers of getFtpConnection that agree on host, port and user and       *)
(* differ in the password or in the transport (server.js 322-348).         *)
(***************************************************************************)
FtpsSame == <<"f","t","p","s",":","/","/","u","@","h",":","2","1","/","x",".","j","p","g">>

CredentialConfigs == {parseFtpPath(FtpJpg), parseFtpPath(FtpPw), parseFtpPath(FtpsSame)}

CredentialNext ==
  \/ \E ftpConfig \in CredentialConfigs : AcquireRequest(ftpConfig)
  \/ \E k \in 1..Len(procs) : AccessDone(k)
  \/ \E c \in 1..Len(clients) : CloseClient(c)

SpecCredentials == PoolInit /\ [][CredentialNext]_vars

\* caller k has been given a session
Holds(k) ==
  /\ procs[k].kind = "acquire" /\ Done(procs[k])
  /\ procs[k].client \in 1..Len(clients)

\* C35: the session that acquire returns for a config was authenticated with
\* that config's password and opened with that config's secure flag: a caller
\* presenting a different password, or ftp instead of ftps, for the same
\* host:port:user never receives a session opened under other credentials or
\* another transport
C35_SessionMatchesCredentials ==
  \A k \in 1..Len(procs) :
    Holds(k) =>
      /\ clients[procs[k].client].password = procs[k].ftpConfig.password
      /\ clients[procs[k].client].secure = procs[k].ftpConfig.secure

(***************************************************************************)
(* Thumbnail requests that end in an error, over a cache directory that    *)
(* holds entries already (server.js 571-652).                              *)
(***************************************************************************)
\* an entry stored for the local image when its mtime was 1, and one stored
\* for the remote image by a request at time 1
OlderEntries ==
  {[name |-> getCacheFilename(PathJpg, 1), data |-> SharpThumbnail(GoodImage(1))],
   [name |-> getCacheFilename(FtpJpg, 1), data |-> SharpThumbnail(GoodImage(7))]}

ThumbErrorsInit ==
  /\ platform = "posix"
  /\ localFs \in
       {[p \in LocalPaths |-> IF p = PathJpg THEN jpg ELSE AbsentFile] :
          jpg \in {PresentFile(GoodImage(2), 2), PresentFile(CorruptImage, 2)}}
  /\ IdleMedia
  /\ now = 1
  /\ cacheDir \in {{}, OlderEntries}
  /\ ioFaults \in BOOLEAN
  /\ ftpConnections = {}
  /\ clients = <<>>
  /\ procs = <<>>
  /\ call = NoCall
  /\ page = NoPage

ThumbErrorsNext ==
  \/ \E filePath \in {PathJpg, PathGif, FtpJpg, FtpBad} : ThumbRequest(filePath)
  \/ \E k \in 1..Len(procs) : Step(k)
  \/ Tick

SpecThumbErrors == ThumbErrorsInit /\ [][ThumbErrorsNext]_vars

\* thumbnail request k has ended in an error
EndedInError(k) ==
  /\ procs[k].kind = "thumb" /\ Done(procs[k])
  /\ procs[k].res.status \in {400, 404, 500}

\* request k has been inside saveThumbnailToCache, the one place that
\* deletes or writes entries: it is entered with the thumbnail made
EnteredSave(p) == p.thumbnail # <<>> \/ p.pending # {} \/ p.cacheWrites > 0

\* the requests that moved in this step
Movers ==
  {k \in 1..Len(procs') : k > Len(procs) \/ procs'[k] # procs[k]}

\* C36: a thumbnail request that ends in an error (local source absent ->
\* 404, invalid remote identifier -> 400, download or decode failure -> 500)
\* leaves the cache directory as it was before the request: no entry is
\* written and no existing entry is deleted
C36_ErrorLeavesCache ==
  /\ [](\A k \in 1..Len(procs) : EndedInError(k) => ~EnteredSave(procs[k]))
  /\ [][cacheDir' # cacheDir =>
          \A k \in Movers : procs[k].pc \in {"saveUnlink", "saveWrite"}
                              /\ EnteredSave(procs[k])]_vars

\* a request for an invalid remote identifier and one for a local image that
\* does not decode have both ended in errors, and the older entries are there
C36_Witness ==
  /\ Len(procs) = 2
  /\ EndedInError(1) /\ procs[1].res.status = 400
  /\ EndedInError(2) /\ procs[2].res.status = 500 /\ procs[2].filePath = PathJpg
  /\ procs[2].resizes = 1
  /\ cacheDir = OlderEntries

(***************************************************************************)
(* scanDirectory of the page (part_000 410-481, public/app.js 138-192):    *)
(* each call sends its request and goes on when its own answer arrives.    *)
(***************************************************************************)
MaxScans == 3

DirM == <<"/", "m">>
DirN == <<"/", "n">>

ScannedDirectories == {DirM, DirN, NoSuchDir}

\* what the server answers for a directory: its records, or an error
ScanAnswerOf(directory) ==
  CASE directory = DirM ->
         [ok |-> TRUE, files |-> <<PageRecord(NameB, NameB),
                                   PageRecord(NameC, <<"s", "/">> \o NameC)>>]
    [] directory = DirN ->
         [ok |-> TRUE, files |-> <<PageRecord(NameD, NameD)>>]
    [] OTHER -> [ok |-> FALSE, files |-> <<>>]

\* lines 410-445: the user asks for a scan; the request is sent and awaited
ScanClick(directory) ==
  /\ Len(page.scans) < MaxScans
  /\ page' = [page EXCEPT !.scans = Append(@, [directory |-> directory, arrived |-> 0]),
                          !.last = "scanClick"]
  /\ UNCHANGED <<platform, localFs, scanVars, call, mediaVars, cacheVars>>

\* how many answers have arrived
Arrived(pg) == Cardinality({n \in 1..Len(pg.scans) : pg.scans[n].arrived > 0})

\* lines 446-457 of the call that sent request n: a response that is not ok
\* throws; otherwise lastDirectory and the two lists are set from it
onScanResponse(pg, n, data) ==
  IF ~data.ok THEN pg
  ELSE [pg EXCEPT !.lastDirectory = pg.scans[n].directory,
                  !.mediaFiles = [ref |-> pg.refs + 1, items |-> data.files],
                  !.filteredFiles = [ref |-> pg.refs + 2, items |-> data.files],
                  !.refs = @ + 2]

\* the answer to request n arrives, in whatever order the network delivers
ScanArrives(n) ==
  /\ n \in 1..Len(page.scans)
  /\ page.scans[n].arrived = 0
  /\ page' = [onScanResponse(page, n, ScanAnswerOf(page.scans[n].directory))
                EXCEPT !.scans[n].arrived = Arrived(page) + 1, !.last = "scanAnswer"]
  /\ UNCHANGED <<platform, localFs, scanVars, call, mediaVars, cacheVars>>

PageScansNext ==
  \/ \E directory \in ScannedDirectories : ScanClick(directory)
  \/ \E n \in 1..MaxScans : ScanArrives(n)

SpecPageScans == PageInit /\ [][PageScansNext]_vars

\* the requests whose scan succeeded
Succeeded(pg) == {n \in 1..Len(pg.scans) : ScanAnswerOf(pg.scans[n].directory).ok}

AllArrived(pg) == \A n \in 1..Len(pg.scans) : pg.scans[n].arrived > 0

\* the last of the successful requests, in the order they were made
LatestScan(pg) == CHOOSE n \in Succeeded(pg) : \A m \in Succeeded(pg) : m <= n

\* C37: when two scan requests issued from the UI overlap, then once both
\* responses have arrived the file list held by the client (mediaFiles,
\* filteredFiles and the saved lastDirectory) is that of the most recently
\* requested directory, whatever order the responses arrive in
C37_LatestScanWins ==
  (Len(page.scans) >= 2 /\ AllArrived(page) /\ Succeeded(page) # {}) =>
    /\ page.lastDirectory = page.scans[LatestScan(page)].directory
    /\ page.mediaFiles.items = ScanAnswerOf(page.lastDirectory).files
    /\ page.filteredFiles.items = ScanAnswerOf(page.lastDirectory).files
=============================================================================
